---- MODULE Spec2Model ----
(***************************************************************************)
(* Model of src/bot.py: the unit conversion engine (EnhancedUnitConverter) *)
(* and the conversation state machine (AdvancedBotHandlers driven by the   *)
(* ConversationHandler that main() builds).                                *)
(*                                                                         *)
(* Names are the source's names.  The source's Russian strings are written *)
(* in Latin transliteration because the module is ASCII only.              *)
(***************************************************************************)
EXTENDS Integers, Sequences, FiniteSets, TLC

(***************************************************************************)
(* NUMBERS.  A Python float is modelled exactly, without rounding, as      *)
(*   [k |-> "fin", n, d, e]   the rational (n/d) * 10^e, in canonical form *)
(*   [k |-> "inf", n |-> 1 or -1]   and   [k |-> "nan"].                   *)
(* Canonical form: gcd(|n|, d) = 1, d is coprime to 10, 10 does not divide *)
(* n, and zero is n = 0, d = 1, e = 0.  Two finite numbers are equal as    *)
(* records exactly when they are equal as numbers.                         *)
(***************************************************************************)
Abs(x) == IF x < 0 THEN -x ELSE x

Min(a, b) == IF a <= b THEN a ELSE b

RECURSIVE GCD(_, _)
GCD(a, b) == IF b = 0 THEN a ELSE GCD(b, a % b)

RECURSIVE Pow10(_)
Pow10(j) == IF j <= 0 THEN 1 ELSE 10 * Pow10(j - 1)

Zero == [k |-> "fin", n |-> 0, d |-> 1, e |-> 0]

NaN == [k |-> "nan"]

Inf(s) == [k |-> "inf", n |-> s]

RECURSIVE NormN(_, _, _)
NormN(n, d, e) ==
    IF n % 10 = 0 THEN NormN(n \div 10, d, e + 1)
    ELSE [k |-> "fin", n |-> n, d |-> d, e |-> e]

RECURSIVE NormD(_, _, _)
NormD(n, d, e) ==
    IF d % 2 = 0 THEN NormD(n * 5, d \div 2, e - 1)
    ELSE IF d % 5 = 0 THEN NormD(n * 2, d \div 5, e - 1)
    ELSE NormN(n, d, e)

\* The canonical form of (n/d) * 10^e, d > 0.
Norm(n, d, e) ==
    IF n = 0 THEN Zero
    ELSE LET g == GCD(Abs(n), d) IN NormD(n \div g, d \div g, e)

Int2Num(i) == Norm(i, 1, 0)

IsFin(a) == a.k = "fin"

IsZero(a) == a.k = "fin" /\ a.n = 0

\* -1, 0 or 1; nan has no sign and is never asked for one.
Sign(a) == IF a.n < 0 THEN -1 ELSE IF a.n > 0 THEN 1 ELSE 0

Neg(a) ==
    CASE a.k = "nan" -> NaN
      [] a.k = "inf" -> Inf(-a.n)
      [] OTHER -> [a EXCEPT !.n = -a.n]

\* The order of |a| against 10^p for a finite nonzero a: -1, 0 or 1.
CmpPow10(a, p) ==
    LET j == a.e - p
        m == Abs(a.n)
    IN  IF j >= 10 THEN 1
        ELSE IF j <= -10 THEN -1
        ELSE IF j = 0 THEN (IF m > a.d THEN 1 ELSE IF m < a.d THEN -1 ELSE 0)
        ELSE IF j > 0 THEN (IF m > a.d \div Pow10(j) THEN 1 ELSE -1)
        ELSE (IF (m - 1) \div Pow10(-j) >= a.d THEN 1 ELSE -1)

\* A float holds magnitudes up to about 1.8e308 and down to about 5e-324:
\* beyond them an operation's result is inf, or 0.  The thresholds are
\* modelled at the decades 1e309 and 1e-324.
Round(a) ==
    IF a.k # "fin" \/ a.n = 0 THEN a
    ELSE IF CmpPow10(a, 309) >= 0 THEN Inf(Sign(a))
    ELSE IF CmpPow10(a, -324) < 0 THEN Zero
    ELSE a

\* Exact sum (Python's int +, and float + before rounding).
XAdd(a, b) ==
    CASE a.k = "nan" \/ b.k = "nan" -> NaN
      [] a.k = "inf" /\ b.k = "inf" -> IF a.n = b.n THEN a ELSE NaN
      [] a.k = "inf" -> a
      [] b.k = "inf" -> b
      [] OTHER ->
            IF a.n = 0 THEN b
            ELSE IF b.n = 0 THEN a
            ELSE LET e0 == Min(a.e, b.e)
                     na == a.n * Pow10(a.e - e0)
                     nb == b.n * Pow10(b.e - e0)
                 IN  Norm(na * b.d + nb * a.d, a.d * b.d, e0)

\* Float addition: a term more than 40 decades below the other is absorbed
\* (a float holds under 17 significant digits).
RAdd(a, b) ==
    IF a.k = "fin" /\ b.k = "fin" /\ a.n # 0 /\ b.n # 0 /\ Abs(a.e - b.e) >= 40
    THEN (IF a.e > b.e THEN a ELSE b)
    ELSE Round(XAdd(a, b))

RSub(a, b) == RAdd(a, Neg(b))

\* Exact product.
XMul(a, b) ==
    CASE a.k = "nan" \/ b.k = "nan" -> NaN
      [] a.k = "inf" \/ b.k = "inf" ->
            IF Sign(a) * Sign(b) = 0 THEN NaN ELSE Inf(Sign(a) * Sign(b))
      [] OTHER -> Norm(a.n * b.n, a.d * b.d, a.e + b.e)

\* Float multiplication.
RMul(a, b) == Round(XMul(a, b))

\* Float division a / b for b # 0 (Python raises ZeroDivisionError for b = 0,
\* which the callers decide before they divide).
XDiv(a, b) ==
    CASE a.k = "nan" \/ b.k = "nan" -> NaN
      [] a.k = "inf" /\ b.k = "inf" -> NaN
      [] a.k = "inf" -> Inf(a.n * (IF Sign(b) < 0 THEN -1 ELSE 1))
      [] b.k = "inf" -> Zero
      [] OTHER ->
            LET s == IF b.n < 0 THEN -1 ELSE 1
            IN  Norm(s * a.n * b.d, a.d * Abs(b.n), a.e - b.e)

RDiv(a, b) == Round(XDiv(a, b))

\* A variant of IsInfOrNan that finds every value finite.
IsInfOrNan_Never(a) == FALSE

\* math.isinf(x) or math.isnan(x)
IsInfOrNan(a) == a.k # "fin"

\* abs(value) > 1e100, as Python compares floats (False for nan).
AbsGt1e100(a) ==
    CASE a.k = "nan" -> FALSE
      [] a.k = "inf" -> TRUE
      [] OTHER -> a.n # 0 /\ CmpPow10(a, 100) > 0

\* abs(value) < 1e-100 and value != 0
AbsLt1em100NonZero(a) ==
    CASE a.k = "nan" -> FALSE
      [] a.k = "inf" -> FALSE
      [] OTHER -> a.n # 0 /\ CmpPow10(a, -100) < 0

(***************************************************************************)
(* TEXT.  A text is a sequence of characters, each a one-character string. *)
(***************************************************************************)
Digits == {"0", "1", "2", "3", "4", "5", "6", "7", "8", "9"}

UpperLetters ==
    {"A", "B", "C", "D", "E", "F", "G", "H", "I", "J", "K", "L", "M",
     "N", "O", "P", "Q", "R", "S", "T", "U", "V", "W", "X", "Y", "Z"}

LowerLetters ==
    {"a", "b", "c", "d", "e", "f", "g", "h", "i", "j", "k", "l", "m",
     "n", "o", "p", "q", "r", "s", "t", "u", "v", "w", "x", "y", "z"}

IsDigit(c) == c \in Digits

\* A character that starts or continues a Python identifier.
IsAlpha(c) == c \in UpperLetters \cup LowerLetters \cup {"_"}

DigitVal(c) ==
    CASE c = "0" -> 0 [] c = "1" -> 1 [] c = "2" -> 2 [] c = "3" -> 3
      [] c = "4" -> 4 [] c = "5" -> 5 [] c = "6" -> 6 [] c = "7" -> 7
      [] c = "8" -> 8 [] c = "9" -> 9

\* str.lower() on one character, for the letters of the float words and of
\* the constants' names.
LowerChar(c) ==
    CASE c = "A" -> "a" [] c = "C" -> "c" [] c = "E" -> "e" [] c = "F" -> "f"
      [] c = "G" -> "g" [] c = "H" -> "h" [] c = "I" -> "i" [] c = "N" -> "n"
      [] c = "P" -> "p" [] c = "T" -> "t" [] c = "Y" -> "y"
      [] OTHER -> c

Lower(s) == [i \in 1..Len(s) |-> LowerChar(s[i])]

AllDigits(s) == \A i \in 1..Len(s) : IsDigit(s[i])

RECURSIVE DigitsVal(_)
DigitsVal(s) ==
    IF s = <<>> THEN 0
    ELSE 10 * DigitsVal(SubSeq(s, 1, Len(s) - 1)) + DigitVal(s[Len(s)])

\* The first index of s holding a character of cs, 0 when there is none.
IndexOf(s, cs) ==
    IF \E i \in 1..Len(s) : s[i] \in cs
    THEN CHOOSE i \in 1..Len(s) : s[i] \in cs /\ \A j \in 1..(i - 1) : s[j] \notin cs
    ELSE 0

\* The number of occurrences of c in s.
Count(s, c) == Cardinality({i \in 1..Len(s) : s[i] = c})

\* The index of the last character of the run of digits that starts at i
\* (i - 1 when s[i] is no digit).
RECURSIVE DigitRunEnd(_, _)
DigitRunEnd(s, i) ==
    IF i <= Len(s) /\ IsDigit(s[i]) THEN DigitRunEnd(s, i + 1) ELSE i - 1

Err == [k |-> "err"]

IsErr(a) == a.k = "err"

\* [sign] digits -> integer, for an exponent; Err when malformed.
SignedDigits(s) ==
    LET signed == Len(s) >= 1 /\ s[1] \in {"+", "-"}
        ds == IF signed THEN SubSeq(s, 2, Len(s)) ELSE s
    IN  IF Len(ds) = 0 \/ ~AllDigits(ds) THEN Err
        ELSE [k |-> "int", v |-> IF signed /\ s[1] = "-" THEN -DigitsVal(ds) ELSE DigitsVal(ds)]

\* float(s) for an unsigned decimal: digits [. digits] [e|E [sign] digits],
\* at least one digit in the mantissa.  Err is Python's ValueError.
UnsignedDecimal(s) ==
    LET ePos == IndexOf(s, {"e", "E"})
        mant == IF ePos = 0 THEN s ELSE SubSeq(s, 1, ePos - 1)
        expo == IF ePos = 0 THEN <<>> ELSE SubSeq(s, ePos + 1, Len(s))
        dot  == IndexOf(mant, {"."})
        ip   == IF dot = 0 THEN mant ELSE SubSeq(mant, 1, dot - 1)
        fp   == IF dot = 0 THEN <<>> ELSE SubSeq(mant, dot + 1, Len(mant))
        ex   == IF ePos = 0 THEN [k |-> "int", v |-> 0] ELSE SignedDigits(expo)
    IN  IF ~AllDigits(ip) \/ ~AllDigits(fp) \/ Len(ip) + Len(fp) = 0 \/ IsErr(ex)
        THEN Err
        ELSE Round(Norm(DigitsVal(ip \o fp), 1, ex.v - Len(fp)))

\* Python's float(str) on a text without white space: an optionally signed
\* decimal, or inf, infinity or nan in any letter case.  (Digit-group
\* underscores and non-ASCII digits are outside the modelled alphabet.)
ParseFloat(s) ==
    LET signed == Len(s) >= 1 /\ s[1] \in {"+", "-"}
        body == IF signed THEN SubSeq(s, 2, Len(s)) ELSE s
        neg  == signed /\ s[1] = "-"
        low  == Lower(body)
        u    == CASE low = <<"i", "n", "f">> -> Inf(1)
                  [] low = <<"i", "n", "f", "i", "n", "i", "t", "y">> -> Inf(1)
                  [] low = <<"n", "a", "n">> -> NaN
                  [] OTHER -> UnsignedDecimal(body)
    IN  IF IsErr(u) THEN Err ELSE IF neg THEN Neg(u) ELSE u

(***************************************************************************)
(* The expression evaluator: Python's eval() on the language validate_input *)
(* can reach with numbers, the names e and pi, unary + and -, and the      *)
(* binary operators + - * / // **.  A value is [ok, t, v, pos]: t is       *)
(* Python's type ("int" or "float"), v the number, pos the index after the *)
(* parsed text.  Fail stands for every exception eval raises (SyntaxError, *)
(* NameError, TypeError, ZeroDivisionError, OverflowError).  Parentheses,  *)
(* function calls and non-integer powers are not modelled: the texts the   *)
(* specifications draw do not contain them on the expression path.         *)
(***************************************************************************)
Fail == [ok |-> FALSE]

Val(t, v, pos) == [ok |-> TRUE, t |-> t, v |-> v, pos |-> pos]

At(s, i) == IF i >= 1 /\ i <= Len(s) THEN s[i] ELSE ""

\* The approximations of math.pi and math.e the model computes with.
MathPi == Norm(314159, 1, -5)

MathE == Norm(271828, 1, -5)

\* |v| >= 1e309 for a finite v: too large for a float.
TooLargeForFloat(v) == v.k = "fin" /\ v.n # 0 /\ CmpPow10(v, 309) >= 0

\* A number literal at s[i]: decinteger, pointfloat or exponentfloat.
PyNumber(s, i) ==
    LET dEnd   == DigitRunEnd(s, i)
        hasDot == At(s, dEnd + 1) = "."
        fEnd   == IF hasDot THEN DigitRunEnd(s, dEnd + 2) ELSE dEnd
        D      == SubSeq(s, i, dEnd)
        F      == IF hasDot THEN SubSeq(s, dEnd + 2, fEnd) ELSE <<>>
        mEnd   == IF hasDot /\ fEnd < dEnd + 1 THEN dEnd + 1 ELSE fEnd
        xSign  == At(s, mEnd + 2) \in {"+", "-"}
        xFrom  == IF xSign THEN mEnd + 3 ELSE mEnd + 2
        xEnd   == DigitRunEnd(s, xFrom)
        hasExp == At(s, mEnd + 1) \in {"e", "E"} /\ xEnd >= xFrom
        xVal   == IF hasExp
                  THEN (IF At(s, mEnd + 2) = "-" THEN -1 ELSE 1) * DigitsVal(SubSeq(s, xFrom, xEnd))
                  ELSE 0
        tEnd   == IF hasExp THEN xEnd ELSE mEnd
        isFlt  == hasDot \/ hasExp
        intOK  == (\A j \in 1..Len(D) : D[j] = "0") \/ D[1] # "0"
        v      == Norm(DigitsVal(D \o F), 1, xVal - Len(F))
    IN  IF Len(D) + Len(F) = 0 THEN Fail
        ELSE IF ~isFlt /\ ~intOK THEN Fail
        ELSE IF IsAlpha(At(s, tEnd + 1)) \/ IsDigit(At(s, tEnd + 1)) THEN Fail
        ELSE IF isFlt THEN Val("float", Round(v), tEnd + 1)
        ELSE Val("int", v, tEnd + 1)

\* The index of the last character of the identifier that starts at i.
RECURSIVE NameEnd(_, _)
NameEnd(s, i) ==
    IF IsAlpha(At(s, i)) \/ IsDigit(At(s, i)) THEN NameEnd(s, i + 1) ELSE i - 1

\* atom: a number, or a name of eval's namespace that holds a number.
PyAtom(s, i) ==
    IF IsDigit(At(s, i)) \/ At(s, i) = "." THEN PyNumber(s, i)
    ELSE IF IsAlpha(At(s, i))
    THEN LET j == NameEnd(s, i)
             name == SubSeq(s, i, j)
         IN  IF name = <<"e">> THEN Val("float", MathE, j + 1)
             ELSE IF name = <<"p", "i">> THEN Val("float", MathPi, j + 1)
             ELSE Fail
    ELSE Fail

BothInt(a, b) == a.t = "int" /\ b.t = "int"

PyAdd(a, b, pos) ==
    IF BothInt(a, b) THEN Val("int", XAdd(a.v, b.v), pos)
    ELSE Val("float", RAdd(a.v, b.v), pos)

PySub(a, b, pos) ==
    IF BothInt(a, b) THEN Val("int", XAdd(a.v, Neg(b.v)), pos)
    ELSE Val("float", RSub(a.v, b.v), pos)

PyMul(a, b, pos) ==
    IF BothInt(a, b) THEN Val("int", XMul(a.v, b.v), pos)
    ELSE Val("float", RMul(a.v, b.v), pos)

\* a / b
PyTrueDiv(a, b, pos) ==
    IF IsZero(b.v) THEN Fail
    ELSE IF BothInt(a, b) /\ TooLargeForFloat(XDiv(a.v, b.v)) THEN Fail
    ELSE Val("float", RDiv(a.v, b.v), pos)

\* floor(q) of a finite number, as a number.
Floor(q) ==
    IF q.d = 1 /\ q.e >= 0 THEN q
    ELSE IF q.e >= 0 THEN Int2Num((q.n * Pow10(q.e)) \div q.d)
    ELSE Int2Num(q.n \div (q.d * Pow10(-q.e)))

\* a // b
PyFloorDiv(a, b, pos) ==
    IF IsZero(b.v) THEN Fail
    ELSE IF BothInt(a, b) THEN Val("int", Floor(XDiv(a.v, b.v)), pos)
    ELSE IF a.v.k # "fin" THEN Val("float", NaN, pos)
    ELSE IF b.v.k = "nan" THEN Val("float", NaN, pos)
    ELSE IF b.v.k = "inf"
    THEN Val("float", IF Sign(a.v) * Sign(b.v) >= 0 THEN Zero ELSE Int2Num(-1), pos)
    ELSE Val("float", Floor(XDiv(a.v, b.v)), pos)

RECURSIVE XPow(_, _)
XPow(b, k) ==
    IF k = 0 THEN Int2Num(1)
    ELSE IF k % 2 = 0 THEN LET h == XPow(b, k \div 2) IN XMul(h, h)
    ELSE XMul(b, XPow(b, k - 1))

\* a ** b for an integer-valued b
PyPow(a, b, pos) ==
    IF ~(b.v.k = "fin" /\ b.v.d = 1 /\ b.v.e >= 0) THEN Fail
    ELSE LET k == b.v.n * Pow10(b.v.e)
             p == XPow(a.v, Abs(k))
         IN  IF BothInt(a, b) /\ k >= 0 THEN Val("int", p, pos)
             ELSE IF k < 0 /\ IsZero(a.v) THEN Fail
             ELSE LET r == IF k >= 0 THEN p ELSE XDiv(Int2Num(1), p)
                  IN  IF TooLargeForFloat(r) THEN Fail
                      ELSE Val("float", Round(r), pos)

\* The binary operator at s[i]: its name and its length, "" when none.
BinaryOp(s, i) ==
    IF At(s, i) = "*" /\ At(s, i + 1) = "*" THEN [op |-> "**", len |-> 2]
    ELSE IF At(s, i) = "/" /\ At(s, i + 1) = "/" THEN [op |-> "//", len |-> 2]
    ELSE IF At(s, i) \in {"+", "-", "*", "/"} THEN [op |-> At(s, i), len |-> 1]
    ELSE [op |-> "", len |-> 0]

\* Python's operator precedence: arith_expr < term < factor (unary) < power.
Prec(op) ==
    CASE op \in {"+", "-"} -> 1
      [] op \in {"*", "/", "//"} -> 2
      [] op \in {"u+", "u-"} -> 3
      [] op = "**" -> 4

\* Whether the operator on top of the stack is applied before op is pushed:
\* the binary operators associate to the left, except the power.
AppliedBefore(top, op) == Prec(top) > Prec(op) \/ (Prec(top) = Prec(op) /\ op # "**")

PyBinary(op, a, b) ==
    CASE op = "//" -> PyFloorDiv(a, b, 0)
      [] op = "/" -> PyTrueDiv(a, b, 0)
      [] op = "*" -> PyMul(a, b, 0)
      [] op = "+" -> PyAdd(a, b, 0)
      [] op = "-" -> PySub(a, b, 0)
      [] op = "**" -> PyPow(a, b, 0)

\* The parser's state: the operands and the operators read and not yet
\* applied, the position in the text, and whether an operand is expected.
ParseStart == [vals |-> <<>>, ops |-> <<>>, pos |-> 1, operand |-> TRUE,
               done |-> FALSE, ok |-> TRUE]

ParseFail(st) == [st EXCEPT !.done = TRUE, !.ok = FALSE]

Front(q) == SubSeq(q, 1, Len(q) - 1)

\* Replace the operator on top of the stack and its n operands by r.
Reduced(st, n, r) ==
    IF ~r.ok THEN ParseFail(st)
    ELSE [st EXCEPT !.ops = Front(st.ops),
                    !.vals = SubSeq(st.vals, 1, Len(st.vals) - n) \o <<r>>]

PyUnary(op, b) == IF op = "u-" THEN Val(b.t, Neg(b.v), 0) ELSE b

\* Apply the operator on top of the stack to the operands on top.
Reduce(st) ==
    IF st.ops[Len(st.ops)] \in {"u+", "u-"}
    THEN Reduced(st, 1, PyUnary(st.ops[Len(st.ops)], st.vals[Len(st.vals)]))
    ELSE Reduced(st, 2, PyBinary(st.ops[Len(st.ops)], st.vals[Len(st.vals) - 1],
                                 st.vals[Len(st.vals)]))

\* Read the operand a, parsed at the position of st.
ReadOperand(st, a) ==
    IF ~a.ok THEN ParseFail(st)
    ELSE [st EXCEPT !.vals = Append(@, a), !.pos = a.pos, !.operand = FALSE]

\* Read the binary operator o at the position of st, applying first the
\* operator on top of the stack when that one binds at least as tightly.
ReadOperator(st, o) ==
    IF o.op = "" THEN ParseFail(st)
    ELSE IF st.ops # <<>> /\ AppliedBefore(st.ops[Len(st.ops)], o.op) THEN Reduce(st)
    ELSE [st EXCEPT !.ops = Append(@, o.op), !.pos = @ + o.len, !.operand = TRUE]

\* One step of the parse: read an operand or an operator, or apply one.
ParseStep(s, st) ==
    IF st.operand
    THEN IF At(s, st.pos) \in {"+", "-"}
         THEN [st EXCEPT !.ops = Append(@, IF At(s, st.pos) = "-" THEN "u-" ELSE "u+"),
                         !.pos = @ + 1]
         ELSE ReadOperand(st, PyAtom(s, st.pos))
    ELSE IF st.pos <= Len(s) THEN ReadOperator(st, BinaryOp(s, st.pos))
    ELSE IF st.ops = <<>> THEN [st EXCEPT !.done = TRUE]
    ELSE Reduce(st)

RECURSIVE ParseRun(_, _)
ParseRun(s, st) == IF st.done THEN st ELSE ParseRun(s, ParseStep(s, st))

\* eval(cleaned, ...): the value, or Fail when eval raises.
ParseResult(st) == IF st.ok THEN st.vals[1] ELSE Fail

PyEval(s) == ParseResult(ParseRun(s, ParseStart))

(***************************************************************************)
(* EnhancedUnitConverter.validate_input                                    *)
(***************************************************************************)
\* Python's None, as a value and as an error message.
NoValue == [k |-> "none"]

NoError == "None"

\* The reasons validate_input gives.
Msg ==
    [division_by_zero |-> "Delenie na nol nevozmozhno",
     too_large |-> "Slishkom bolshoe chislo",
     too_small |-> "Slishkom malenkoe chislo",
     not_a_number |-> "Pozhaluysta, vvedite korrektnoe chislovoe znachenie"]

Valid(v) == [valid |-> TRUE, value |-> v, error |-> NoError]

Invalid(msg) == [valid |-> FALSE, value |-> NoValue, error |-> msg]

\* text.strip().replace(',', '.').replace(' ', '')
Clean(text) ==
    LET noSpace == SelectSeq(text, LAMBDA c : c # " ")
    IN  [i \in 1..Len(noSpace) |-> IF noSpace[i] = "," THEN "." ELSE noSpace[i]]

\* cleaned.replace('^', '**')
RECURSIVE ReplaceCaret(_)
ReplaceCaret(s) ==
    IF s = <<>> THEN <<>>
    ELSE (IF s[1] = "^" THEN <<"*", "*">> ELSE <<s[1]>>) \o ReplaceCaret(Tail(s))

\* The constants dictionary.  Its keys in Greek letters are not modelled;
\* pi, e and phi are held to six significant digits.
ConstantNames == {<<"p", "i">>, <<"e">>, <<"p", "h", "i">>, <<"c">>, <<"g">>}

ConstantValue(name) ==
    CASE name = <<"p", "i">> -> MathPi
      [] name = <<"e">> -> MathE
      [] name = <<"p", "h", "i">> -> Norm(161803, 1, -5)
      [] name = <<"c">> -> Int2Num(299792458)
      [] name = <<"g">> -> Norm(980665, 1, -5)

\* The range check on a plain literal, lines 466-472.
RangeCheck(value) ==
    IF AbsGt1e100(value) THEN Invalid(Msg.too_large)
    ELSE IF AbsLt1em100NonZero(value) THEN Invalid(Msg.too_small)
    ELSE Valid(value)

\* A variant of PlainLiteral that does not catch the ValueError of
\* float(cleaned): the error is what the call gives.
PlainLiteral_ErrorEscapes(cleaned) ==
    LET value == ParseFloat(cleaned)
    IN  IF IsErr(value) THEN Valid(value) ELSE RangeCheck(value)

\* "Simple number": float(cleaned), then the range check.
PlainLiteral(cleaned) ==
    LET value == ParseFloat(cleaned)
    IN  IF IsErr(value) THEN Invalid(Msg.not_a_number) ELSE RangeCheck(value)

\* A variant of Fraction without the test of the denominator, where the
\* ZeroDivisionError of the division is answered as a text that is no number.
Fraction_NoZeroTest(cleaned) ==
    LET slash       == IndexOf(cleaned, {"/"})
        numerator   == ParseFloat(SubSeq(cleaned, 1, slash - 1))
        denominator == ParseFloat(SubSeq(cleaned, slash + 1, Len(cleaned)))
    IN  IF IsErr(numerator) \/ IsErr(denominator) \/ IsZero(denominator)
        THEN Invalid(Msg.not_a_number)
        ELSE Valid(RDiv(numerator, denominator))

\* The fraction branch for a text with exactly one '/'.
Fraction(cleaned) ==
    LET slash       == IndexOf(cleaned, {"/"})
        numerator   == ParseFloat(SubSeq(cleaned, 1, slash - 1))
        denominator == ParseFloat(SubSeq(cleaned, slash + 1, Len(cleaned)))
    IN  IF IsErr(numerator) \/ IsErr(denominator) THEN Invalid(Msg.not_a_number)
        ELSE IF IsZero(denominator) THEN Invalid(Msg.division_by_zero)
        ELSE Valid(RDiv(numerator, denominator))

\* The expression branch: eval, float(result) on success, and the plain
\* literal of the rewritten text when eval or float(result) raises.
ExpressionResult(result, rewritten) ==
    IF result.ok /\ ~(result.t = "int" /\ TooLargeForFloat(result.v))
    THEN Valid(Round(result.v))
    ELSE PlainLiteral(rewritten)

ExpressionOf(rewritten) == ExpressionResult(PyEval(rewritten), rewritten)

Expression(cleaned) == ExpressionOf(ReplaceCaret(cleaned))

validate_input(text) ==
    LET cleaned == Clean(text)
    IN  IF Lower(cleaned) \in ConstantNames THEN Valid(ConstantValue(Lower(cleaned)))
        ELSE IF Count(cleaned, "/") = 1 THEN Fraction(cleaned)
        ELSE IF \E i \in 1..Len(cleaned) : cleaned[i] \in {"+", "-", "*", "^"}
        THEN Expression(cleaned)
        ELSE PlainLiteral(cleaned)

(***************************************************************************)
(* EnhancedUnitConverter: the registry and the conversion engine.          *)
(***************************************************************************)
\* A registry entry: its "type", and its "factor" unless it is a temperature.
Linear(factor) == [type |-> "linear", factor |-> factor]

Digital(factor) == [type |-> "digital", factor |-> factor]

Area(factor) == [type |-> "area", factor |-> factor]

Volume(factor) == [type |-> "volume", factor |-> factor]

Angle(factor) == [type |-> "angle", factor |-> factor]

Temperature == [type |-> "temperature"]

\* The factors from 2^33 on (gigabayt to petabayt, terabit/sek to
\* terabayt/sek) are beyond the integers of the model.  Their units are in
\* the registry under their names and types; arithmetic on such a factor is
\* an error of the model, and no specification converts with these units.
Unmodelled == [k |-> "unmodelled"]

\* A registry in which a name belongs to two categories: the arshin is
\* defined under the metric lengths as well.
PHYSICAL_QUANTITIES_ArshinTwice ==
    "Dlina" :> ("metr (m)" :> Linear(Int2Num(1))
                @@ "dyuym (in)" :> Linear(Norm(254, 1, -4))
                @@ "arshin" :> Linear(Norm(7112, 1, -4)))
    @@ "Drevnerusskie mery dliny" :> ("arshin" :> Linear(Norm(7112, 1, -4)))

\* The registry: the 19 categories and their 155 units.  A factor is the
\* source's literal: Norm(n, 1, e) is n * 10^e, as 0.0254 is 254 * 10^-4.
PHYSICAL_QUANTITIES ==
    "Dlina" :> (
             "metr (m)" :> Linear(Int2Num(1))
          @@ "kilometr (km)" :> Linear(Int2Num(1000))
          @@ "santimetr (sm)" :> Linear(Norm(1, 1, -2))
          @@ "millimetr (mm)" :> Linear(Norm(1, 1, -3))
          @@ "mikrometr (mkm)" :> Linear(Norm(1, 1, -6))
          @@ "nanometr (nm)" :> Linear(Norm(1, 1, -9))
          @@ "dyuym (in)" :> Linear(Norm(254, 1, -4))
          @@ "fut (ft)" :> Linear(Norm(3048, 1, -4))
          @@ "yard (yd)" :> Linear(Norm(9144, 1, -4))
          @@ "milya (mi)" :> Linear(Norm(160934, 1, -2))
          @@ "morskaya milya" :> Linear(Int2Num(1852))
          @@ "astronomicheskaya edinitsa (a.e.)" :> Linear(Norm(1496, 1, 8))
          @@ "svetovoy god (ly)" :> Linear(Norm(9461, 1, 12))
          @@ "parsek (pc)" :> Linear(Norm(3086, 1, 13)))
 @@ "Drevnerusskie mery dliny" :> (
             "vershok" :> Linear(Norm(4445, 1, -5))
          @@ "pyad" :> Linear(Norm(1778, 1, -4))
          @@ "lokot" :> Linear(Norm(4572, 1, -4))
          @@ "arshin" :> Linear(Norm(7112, 1, -4))
          @@ "sazhen" :> Linear(Norm(21336, 1, -4))
          @@ "versta" :> Linear(Norm(10668, 1, -1))
          @@ "poprische" :> Linear(Int2Num(1500)))
 @@ "Massa" :> (
             "kilogramm (kg)" :> Linear(Int2Num(1))
          @@ "gramm (g)" :> Linear(Norm(1, 1, -3))
          @@ "milligramm (mg)" :> Linear(Norm(1, 1, -6))
          @@ "tonna (t)" :> Linear(Int2Num(1000))
          @@ "tsentner (ts)" :> Linear(Int2Num(100))
          @@ "karat" :> Linear(Norm(2, 1, -4))
          @@ "funt (lb)" :> Linear(Norm(453592, 1, -6))
          @@ "untsiya (oz)" :> Linear(Norm(283495, 1, -7))
          @@ "pud" :> Linear(Norm(163805, 1, -4))
          @@ "zolotnik" :> Linear(Norm(4266, 1, -6))
          @@ "berkovets" :> Linear(Norm(163805, 1, -3)))
 @@ "Vremya" :> (
             "sekunda (s)" :> Linear(Int2Num(1))
          @@ "millisekunda (ms)" :> Linear(Norm(1, 1, -3))
          @@ "mikrosekunda (mks)" :> Linear(Norm(1, 1, -6))
          @@ "minuta (min)" :> Linear(Int2Num(60))
          @@ "chas (ch)" :> Linear(Int2Num(3600))
          @@ "den" :> Linear(Int2Num(86400))
          @@ "nedelya" :> Linear(Int2Num(604800))
          @@ "mesyats (30 dney)" :> Linear(Int2Num(2592000))
          @@ "god (365 dney)" :> Linear(Int2Num(31536000))
          @@ "vek" :> Linear(Norm(315576, 1, 4)))
 @@ "Temperatura" :> (
             "Tselsiy (C)" :> Temperature
          @@ "Farengeyt (F)" :> Temperature
          @@ "Kelvin (K)" :> Temperature
          @@ "Rankin (R)" :> Temperature
          @@ "Reomyur (Re)" :> Temperature)
 @@ "Ploschad" :> (
             "kv. metr (m2)" :> Area(Int2Num(1))
          @@ "kv. kilometr (km2)" :> Area(Int2Num(1000000))
          @@ "kv. santimetr (sm2)" :> Area(Norm(1, 1, -4))
          @@ "kv. millimetr (mm2)" :> Area(Norm(1, 1, -6))
          @@ "gektar (ga)" :> Area(Int2Num(10000))
          @@ "akr" :> Area(Norm(404686, 1, -2))
          @@ "sotka (ar)" :> Area(Int2Num(100))
          @@ "kv. dyuym" :> Area(Norm(64516, 1, -8))
          @@ "kv. fut" :> Area(Norm(92903, 1, -6))
          @@ "kv. milya" :> Area(Int2Num(2590000))
          @@ "desyatina" :> Area(Int2Num(10925)))
 @@ "Obem" :> (
             "kub. metr (m3)" :> Volume(Int2Num(1))
          @@ "litr (l)" :> Volume(Norm(1, 1, -3))
          @@ "millilitr (ml)" :> Volume(Norm(1, 1, -6))
          @@ "kub. santimetr (sm3)" :> Volume(Norm(1, 1, -6))
          @@ "kub. detsimetr (dm3)" :> Volume(Norm(1, 1, -3))
          @@ "gallon US" :> Volume(Norm(378541, 1, -8))
          @@ "gallon UK" :> Volume(Norm(454609, 1, -8))
          @@ "barrel neftyanoy" :> Volume(Norm(158987, 1, -6))
          @@ "kub. dyuym" :> Volume(Norm(16387, 1, -9))
          @@ "kub. fut" :> Volume(Norm(283168, 1, -7))
          @@ "vedro" :> Volume(Norm(12, 1, -3))
          @@ "bochka" :> Volume(Norm(491976, 1, -6))
          @@ "shtof" :> Volume(Norm(123, 1, -5)))
 @@ "Skorost" :> (
             "metr/sek (m/s)" :> Linear(Int2Num(1))
          @@ "kilometr/chas (km/ch)" :> Linear(Norm(277778, 1, -6))
          @@ "milya/chas (mph)" :> Linear(Norm(44704, 1, -5))
          @@ "uzel (kn)" :> Linear(Norm(514444, 1, -6))
          @@ "fut/sek (ft/s)" :> Linear(Norm(3048, 1, -4))
          @@ "skorost sveta (c)" :> Linear(Int2Num(299792458))
          @@ "mahovoe chislo (M)" :> Linear(Norm(3403, 1, -1)))
 @@ "Uskorenie" :> (
             "metr/sek2 (m/s2)" :> Linear(Int2Num(1))
          @@ "fut/sek2 (ft/s2)" :> Linear(Norm(3048, 1, -4))
          @@ "g (uskorenie svobodnogo padeniya)" :> Linear(Norm(980665, 1, -5))
          @@ "Gal (Gal)" :> Linear(Norm(1, 1, -2)))
 @@ "Davlenie" :> (
             "paskal (Pa)" :> Linear(Int2Num(1))
          @@ "kilopaskal (kPa)" :> Linear(Int2Num(1000))
          @@ "megapaskal (MPa)" :> Linear(Int2Num(1000000))
          @@ "bar" :> Linear(Int2Num(100000))
          @@ "millibar (mbar)" :> Linear(Int2Num(100))
          @@ "atmosfera (atm)" :> Linear(Int2Num(101325))
          @@ "mm rt. st. (torr)" :> Linear(Norm(133322, 1, -3))
          @@ "psi" :> Linear(Norm(689476, 1, -2))
          @@ "tehnicheskaya atmosfera (at)" :> Linear(Norm(980665, 1, -1)))
 @@ "Energiya" :> (
             "dzhoul (Dzh)" :> Linear(Int2Num(1))
          @@ "kilodzhoul (kDzh)" :> Linear(Int2Num(1000))
          @@ "megadzhoul (MDzh)" :> Linear(Int2Num(1000000))
          @@ "kaloriya (kal)" :> Linear(Norm(4184, 1, -3))
          @@ "kilokaloriya (kkal)" :> Linear(Int2Num(4184))
          @@ "vatt-chas (Vt*ch)" :> Linear(Int2Num(3600))
          @@ "kilovatt-chas (kVt*ch)" :> Linear(Int2Num(3600000))
          @@ "elektronvolt (eV)" :> Linear(Norm(1602, 1, -22))
          @@ "megaelektronvolt (MeV)" :> Linear(Norm(1602, 1, -16))
          @@ "BTE (BTU)" :> Linear(Norm(105506, 1, -2))
          @@ "erg" :> Linear(Norm(1, 1, -7)))
 @@ "Moschnost" :> (
             "vatt (Vt)" :> Linear(Int2Num(1))
          @@ "kilovatt (kVt)" :> Linear(Int2Num(1000))
          @@ "megavatt (MVt)" :> Linear(Int2Num(1000000))
          @@ "loshadinaya sila (l.s.)" :> Linear(Norm(735499, 1, -3))
          @@ "loshadinaya sila (hp)" :> Linear(Norm(7457, 1, -1))
          @@ "kaloriya/sek" :> Linear(Norm(4184, 1, -3)))
 @@ "Informatsiya" :> (
             "bit (bit)" :> Digital(Int2Num(1))
          @@ "bayt (byte)" :> Digital(Int2Num(8))
          @@ "kilobit (Kbit)" :> Digital(Int2Num(1024))
          @@ "kilobayt (KB)" :> Digital(Int2Num(8192))
          @@ "megabit (Mbit)" :> Digital(Int2Num(1048576))
          @@ "megabayt (MB)" :> Digital(Int2Num(8388608))
          @@ "gigabit (Gbit)" :> Digital(Int2Num(1073741824))
          @@ "gigabayt (GB)" :> Digital(Unmodelled)
          @@ "terabit (Tbit)" :> Digital(Unmodelled)
          @@ "terabayt (TB)" :> Digital(Unmodelled)
          @@ "petabit (Pbit)" :> Digital(Unmodelled)
          @@ "petabayt (PB)" :> Digital(Unmodelled))
 @@ "Skorost peredachi dannyh" :> (
             "bit/sek (bps)" :> Digital(Int2Num(1))
          @@ "kilobit/sek (Kbps)" :> Digital(Int2Num(1024))
          @@ "megabit/sek (Mbps)" :> Digital(Int2Num(1048576))
          @@ "gigabit/sek (Gbps)" :> Digital(Int2Num(1073741824))
          @@ "terabit/sek (Tbps)" :> Digital(Unmodelled)
          @@ "bayt/sek (Bps)" :> Digital(Int2Num(8))
          @@ "kilobayt/sek (KBps)" :> Digital(Int2Num(8192))
          @@ "megabayt/sek (MBps)" :> Digital(Int2Num(8388608))
          @@ "gigabayt/sek (GBps)" :> Digital(Unmodelled)
          @@ "terabayt/sek (TBps)" :> Digital(Unmodelled))
 @@ "Ugly" :> (
             "radian (rad)" :> Angle(Int2Num(1))
          @@ "gradus ()" :> Angle(Norm(174533, 1, -7))
          @@ "minuta uglovaya (')" :> Angle(Norm(290888, 1, -9))
          @@ "sekunda uglovaya ('')" :> Angle(Norm(484814, 1, -11))
          @@ "oborot (rev)" :> Angle(Norm(628319, 1, -5))
          @@ "grad (gon)" :> Angle(Norm(15708, 1, -6)))
 @@ "Chastota" :> (
             "gerts (Gts)" :> Linear(Int2Num(1))
          @@ "kilogerts (kGts)" :> Linear(Int2Num(1000))
          @@ "megagerts (MGts)" :> Linear(Int2Num(1000000))
          @@ "gigagerts (GGts)" :> Linear(Int2Num(1000000000))
          @@ "oborot/min (rpm)" :> Linear(Norm(166667, 1, -7))
          @@ "radian/sek (rad/s)" :> Linear(Norm(159155, 1, -6)))
 @@ "Sila" :> (
             "nyuton (N)" :> Linear(Int2Num(1))
          @@ "kilonyuton (kN)" :> Linear(Int2Num(1000))
          @@ "dina" :> Linear(Norm(1, 1, -5))
          @@ "kilogramm-sila (kgs)" :> Linear(Norm(980665, 1, -5))
          @@ "funt-sila (lbf)" :> Linear(Norm(444822, 1, -5)))
 @@ "Plotnost" :> (
             "kg/m3" :> Linear(Int2Num(1))
          @@ "g/sm3" :> Linear(Int2Num(1000))
          @@ "g/l" :> Linear(Int2Num(1))
          @@ "funt/kub.fut" :> Linear(Norm(160185, 1, -4))
          @@ "funt/kub.dyuym" :> Linear(Norm(276799, 1, -1)))
 @@ "Vyazkost" :> (
             "paskal-sekunda (Pa*s)" :> Linear(Int2Num(1))
          @@ "santipuaz (sP)" :> Linear(Norm(1, 1, -3))
          @@ "puaz (P)" :> Linear(Norm(1, 1, -1)))

Categories == DOMAIN PHYSICAL_QUANTITIES

TemperatureUnits == DOMAIN PHYSICAL_QUANTITIES["Temperatura"]

\* Python's "sub in s" for the words the engine looks for in a unit name.
Contains(sub, s) ==
    \/ sub = s
    \/ <<sub, s>> \in {<<"Tselsiy", "Tselsiy (C)">>, <<"Farengeyt", "Farengeyt (F)">>,
                       <<"Kelvin", "Kelvin (K)">>, <<"Rankin", "Rankin (R)">>,
                       <<"Reomyur", "Reomyur (Re)">>}

\* An engine call returns a number or raises ValueError(exc).
Returns(v) == [ok |-> TRUE, v |-> v]

Raises(exc) == [ok |-> FALSE, exc |-> exc]

\* str(e) of the exceptions a conversion can raise; the last is the one of
\* a failing sqlite3 call.
Exc ==
    [unknown_temperature_unit |-> "Neizvestnaya edinitsa temperatury",
     unknown_category |-> "Neizvestnaya kategoriya",
     unknown_units |-> "Neizvestnye edinitsy izmereniya",
     database |-> "sqlite3.OperationalError"]

N(n, d) == Norm(n, d, 0)

\* FORMULAS["temperatura"]: the base units, in the dictionary's order, and
\* for each the targets it has a formula for.
FormulaBases == <<"Tselsiy (C)", "Farengeyt (F)", "Kelvin (K)">>

FormulaTargets(base) == TemperatureUnits \ {base}

\* FORMULAS["temperatura"][base][to_unit](x)
Formula(base, to_unit, x) ==
    CASE base = "Tselsiy (C)" /\ to_unit = "Farengeyt (F)" ->
            RAdd(RDiv(RMul(x, N(9, 1)), N(5, 1)), N(32, 1))
      [] base = "Tselsiy (C)" /\ to_unit = "Kelvin (K)" -> RAdd(x, N(27315, 100))
      [] base = "Tselsiy (C)" /\ to_unit = "Rankin (R)" ->
            RDiv(RMul(RAdd(x, N(27315, 100)), N(9, 1)), N(5, 1))
      [] base = "Tselsiy (C)" /\ to_unit = "Reomyur (Re)" ->
            RDiv(RMul(x, N(4, 1)), N(5, 1))
      [] base = "Farengeyt (F)" /\ to_unit = "Tselsiy (C)" ->
            RDiv(RMul(RSub(x, N(32, 1)), N(5, 1)), N(9, 1))
      [] base = "Farengeyt (F)" /\ to_unit = "Kelvin (K)" ->
            RDiv(RMul(RAdd(x, N(45967, 100)), N(5, 1)), N(9, 1))
      [] base = "Farengeyt (F)" /\ to_unit = "Rankin (R)" -> RAdd(x, N(45967, 100))
      [] base = "Farengeyt (F)" /\ to_unit = "Reomyur (Re)" ->
            RDiv(RMul(RSub(x, N(32, 1)), N(4, 1)), N(9, 1))
      [] base = "Kelvin (K)" /\ to_unit = "Tselsiy (C)" -> RSub(x, N(27315, 100))
      [] base = "Kelvin (K)" /\ to_unit = "Farengeyt (F)" ->
            RSub(RDiv(RMul(x, N(9, 1)), N(5, 1)), N(45967, 100))
      [] base = "Kelvin (K)" /\ to_unit = "Rankin (R)" ->
            RDiv(RMul(x, N(9, 1)), N(5, 1))
      [] base = "Kelvin (K)" /\ to_unit = "Reomyur (Re)" ->
            RDiv(RMul(RSub(x, N(27315, 100)), N(4, 1)), N(5, 1))

\* A variant of ToCelsius that takes Rankine for Fahrenheit above absolute
\* zero: it subtracts 459.67 where the source subtracts 491.67.
ToCelsius_RankineOffset(value, from_unit) ==
    IF ~Contains("Tselsiy", from_unit)
    THEN (IF Contains("Farengeyt", from_unit)
          THEN Returns(RDiv(RMul(RSub(value, N(32, 1)), N(5, 1)), N(9, 1)))
          ELSE IF Contains("Kelvin", from_unit)
          THEN Returns(RSub(value, N(27315, 100)))
          ELSE IF Contains("Rankin", from_unit)
          THEN Returns(RDiv(RMul(RSub(value, N(45967, 100)), N(5, 1)), N(9, 1)))
          ELSE IF Contains("Reomyur", from_unit)
          THEN Returns(RDiv(RMul(value, N(5, 1)), N(4, 1)))
          ELSE Raises(Exc.unknown_temperature_unit))
    ELSE Returns(value)

\* Lines 309-323: the source value in Celsius.
ToCelsius(value, from_unit) ==
    IF ~Contains("Tselsiy", from_unit)
    THEN (IF Contains("Farengeyt", from_unit)
          THEN Returns(RDiv(RMul(RSub(value, N(32, 1)), N(5, 1)), N(9, 1)))
          ELSE IF Contains("Kelvin", from_unit)
          THEN Returns(RSub(value, N(27315, 100)))
          ELSE IF Contains("Rankin", from_unit)
          THEN Returns(RDiv(RMul(RSub(value, N(49167, 100)), N(5, 1)), N(9, 1)))
          ELSE IF Contains("Reomyur", from_unit)
          THEN Returns(RDiv(RMul(value, N(5, 1)), N(4, 1)))
          ELSE Raises(Exc.unknown_temperature_unit))
    ELSE Returns(value)

\* Lines 325-335: from Celsius to the target unit.
FromCelsius(celsius, to_unit) ==
    IF Contains("Farengeyt", to_unit)
    THEN Returns(RAdd(RDiv(RMul(celsius, N(9, 1)), N(5, 1)), N(32, 1)))
    ELSE IF Contains("Kelvin", to_unit)
    THEN Returns(RAdd(celsius, N(27315, 100)))
    ELSE IF Contains("Rankin", to_unit)
    THEN Returns(RDiv(RMul(RAdd(celsius, N(27315, 100)), N(9, 1)), N(5, 1)))
    ELSE IF Contains("Reomyur", to_unit)
    THEN Returns(RDiv(RMul(celsius, N(4, 1)), N(5, 1)))
    ELSE Raises(Exc.unknown_temperature_unit)

convert_temperature(value, from_unit, to_unit) ==
    IF from_unit = to_unit THEN Returns(value)
    ELSE IF \E i \in 1..Len(FormulaBases) :
                Contains(FormulaBases[i], from_unit) /\ to_unit \in FormulaTargets(FormulaBases[i])
    THEN LET i == CHOOSE i \in 1..Len(FormulaBases) :
                    /\ Contains(FormulaBases[i], from_unit)
                    /\ to_unit \in FormulaTargets(FormulaBases[i])
                    /\ \A j \in 1..(i - 1) :
                          ~(Contains(FormulaBases[j], from_unit)
                            /\ to_unit \in FormulaTargets(FormulaBases[j]))
         IN  Returns(Formula(FormulaBases[i], to_unit, value))
    ELSE LET celsius == ToCelsius(value, from_unit)
         IN  IF ~celsius.ok THEN celsius ELSE FromCelsius(celsius.v, to_unit)

\* A variant of convert_standard that stops at the base unit: it multiplies
\* by the source unit's factor and does not divide by the target unit's.
convert_standard_ToBaseOnly(value, from_unit, to_unit, category) ==
    IF category \notin DOMAIN PHYSICAL_QUANTITIES THEN Raises(Exc.unknown_category)
    ELSE LET units_dict == PHYSICAL_QUANTITIES[category]
         IN  IF from_unit \notin DOMAIN units_dict \/ to_unit \notin DOMAIN units_dict
             THEN Raises(Exc.unknown_units)
             ELSE LET from_data == units_dict[from_unit]
                      to_data   == units_dict[to_unit]
                  IN  IF from_data.type = "temperature" \/ to_data.type = "temperature"
                      THEN convert_temperature(value, from_unit, to_unit)
                      ELSE Returns(RMul(value, from_data.factor))

\* A variant of convert_standard that multiplies by the target unit's factor
\* and divides by the source unit's.
convert_standard_FactorsExchanged(value, from_unit, to_unit, category) ==
    IF category \notin DOMAIN PHYSICAL_QUANTITIES THEN Raises(Exc.unknown_category)
    ELSE LET units_dict == PHYSICAL_QUANTITIES[category]
         IN  IF from_unit \notin DOMAIN units_dict \/ to_unit \notin DOMAIN units_dict
             THEN Raises(Exc.unknown_units)
             ELSE LET from_data == units_dict[from_unit]
                      to_data   == units_dict[to_unit]
                  IN  IF from_data.type = "temperature" \/ to_data.type = "temperature"
                      THEN convert_temperature(value, from_unit, to_unit)
                      ELSE Returns(RDiv(RMul(value, to_data.factor), from_data.factor))

convert_standard(value, from_unit, to_unit, category) ==
    IF category \notin Categories THEN Raises(Exc.unknown_category)
    ELSE LET units_dict == PHYSICAL_QUANTITIES[category]
         IN  IF from_unit \notin DOMAIN units_dict \/ to_unit \notin DOMAIN units_dict
             THEN Raises(Exc.unknown_units)
             ELSE LET from_data == units_dict[from_unit]
                      to_data   == units_dict[to_unit]
                  IN  IF from_data.type = "temperature" \/ to_data.type = "temperature"
                      THEN convert_temperature(value, from_unit, to_unit)
                      ELSE Returns(RDiv(RMul(value, from_data.factor), to_data.factor))

\* A variant of the table below with one row only: the old Russian lengths
\* are compatible with the metric ones, and not the other way round.
get_compatible_categories_OneRow(category) ==
    CASE category = "Drevnerusskie mery dliny" -> <<"Dlina", "Drevnerusskie mery dliny">>
      [] OTHER -> <<category>>

\* get_compatible_categories: the table, and the category itself by default.
get_compatible_categories(category) ==
    CASE category = "Dlina" -> <<"Dlina", "Drevnerusskie mery dliny">>
      [] category = "Drevnerusskie mery dliny" -> <<"Dlina", "Drevnerusskie mery dliny">>
      [] OTHER -> <<category>>

\* get_compatible_units: the registries of the compatible categories merged
\* by dict.update, a later category's definition replacing an earlier one's.
get_compatible_units(category) ==
    LET cats == get_compatible_categories(category)
        known == {i \in 1..Len(cats) : cats[i] \in Categories}
        names == UNION {DOMAIN PHYSICAL_QUANTITIES[cats[i]] : i \in known}
    IN  [u \in names |->
            LET last == CHOOSE i \in known :
                            /\ u \in DOMAIN PHYSICAL_QUANTITIES[cats[i]]
                            /\ \A j \in known :
                                  u \in DOMAIN PHYSICAL_QUANTITIES[cats[j]] => j <= i
            IN  PHYSICAL_QUANTITIES[cats[last]][u]]

(***************************************************************************)
(* EnhancedUnitConverter.format_result.  A text is the sequence of its     *)
(* characters.  The value is exact, so the digits are those of the exact   *)
(* value rounded half to even, as Python rounds the digits of a float.     *)
(***************************************************************************)
\* The decimal digits of a natural number, most significant first.
RECURSIVE IntDigits(_)
IntDigits(i) == IF i < 10 THEN <<i>> ELSE Append(IntDigits(i \div 10), i % 10)

\* The first k digits of r/d after the point, for r < d, followed by the
\* remainder they leave.
RECURSIVE LongDivision(_, _, _)
LongDivision(r, d, k) ==
    IF k = 0 THEN <<r>>
    ELSE <<(r * 10) \div d>> \o LongDivision((r * 10) % d, d, k - 1)

\* A digit sequence plus one.
RECURSIVE Increment(_)
Increment(digits) ==
    IF digits = <<>> THEN <<1>>
    ELSE IF digits[Len(digits)] < 9
    THEN [digits EXCEPT ![Len(digits)] = @ + 1]
    ELSE Append(Increment(SubSeq(digits, 1, Len(digits) - 1)), 0)

\* Rounding half to even: kept are the digits to keep, next the first digit
\* that is dropped, more whether a later one is not zero.
RoundHalfEven(kept, next, more) ==
    IF \/ next > 5
       \/ next = 5 /\ (more \/ (kept # <<>> /\ kept[Len(kept)] % 2 = 1))
    THEN Increment(kept)
    ELSE kept

RECURSIVE StripZeros(_)
StripZeros(digits) ==
    IF digits # <<>> /\ Head(digits) = 0 THEN StripZeros(Tail(digits)) ELSE digits

\* The digits of abs(value) * 10^places rounded to an integer, for a finite
\* value; no digits at all when it rounds to zero.
RoundedDigits(value, places) ==
    LET whole == IntDigits(Abs(value.n) \div value.d)
        r0    == Abs(value.n) % value.d
        s     == value.e + places
        keep  == Len(whole) + s
    IN  StripZeros(
            IF s >= 0
            THEN LET ld == LongDivision(r0, value.d, s + 1)
                 IN  RoundHalfEven(whole \o SubSeq(ld, 1, s), ld[s + 1], ld[s + 2] # 0)
            ELSE IF keep >= 0
            THEN RoundHalfEven(SubSeq(whole, 1, keep), whole[keep + 1],
                               r0 # 0 \/ \E i \in (keep + 2)..Len(whole) : whole[i] # 0)
            ELSE <<>>)

DigitChars(digits) ==
    [i \in 1..Len(digits) |->
        <<"0", "1", "2", "3", "4", "5", "6", "7", "8", "9">>[digits[i] + 1]]

MinusSign(value) == IF Sign(value) < 0 THEN <<"-">> ELSE <<>>

\* f"{value:.{decimals}f}" for decimals > 0
FixedPoint(value, decimals) ==
    CASE value.k = "nan" -> <<"n", "a", "n">>
      [] value.k = "inf" -> MinusSign(value) \o <<"i", "n", "f">>
      [] OTHER ->
            LET q      == RoundedDigits(value, decimals)
                padded == [i \in 1..(decimals + 1 - Len(q)) |-> 0] \o q
                whole  == Len(padded) - decimals
            IN  MinusSign(value) \o DigitChars(SubSeq(padded, 1, whole)) \o <<".">>
                    \o DigitChars(SubSeq(padded, whole + 1, Len(padded)))

\* The decimal exponent of a finite nonzero value: abs(value) is at least
\* 10^exponent and less than 10^(exponent + 1).
RECURSIVE DecimalExponent(_, _, _)
DecimalExponent(n, d, e) ==
    IF n >= d THEN e + Len(IntDigits(n \div d)) - 1
    ELSE DecimalExponent(n * 10, d, e - 1)

\* f"{value:.{precision}e}": a mantissa of one digit and precision decimals,
\* and an exponent with its sign and two digits at least.
Scientific(value, precision) ==
    CASE value.k = "nan" -> <<"n", "a", "n">>
      [] value.k = "inf" -> MinusSign(value) \o <<"i", "n", "f">>
      [] OTHER ->
            LET x10  == DecimalExponent(Abs(value.n), value.d, value.e)
                q    == RoundedDigits(value, precision - x10)
                exp  == IF Len(q) > precision + 1 THEN x10 + 1 ELSE x10
                expd == IntDigits(Abs(exp))
            IN  MinusSign(value) \o DigitChars(<<q[1]>>) \o <<".">>
                    \o DigitChars(SubSeq(q, 2, precision + 1))
                    \o <<"e", IF exp < 0 THEN "-" ELSE "+">>
                    \o DigitChars(IF Len(expd) < 2 THEN <<0>> \o expd ELSE expd)

\* text.replace('e-0', 'e-').replace('e+0', 'e+')
RECURSIVE ReplaceExponentZero(_)
ReplaceExponentZero(text) ==
    IF Len(text) < 3 THEN text
    ELSE IF text[1] = "e" /\ text[2] \in {"-", "+"} /\ text[3] = "0"
    THEN <<text[1], text[2]>> \o ReplaceExponentZero(SubSeq(text, 4, Len(text)))
    ELSE <<Head(text)>> \o ReplaceExponentZero(Tail(text))

\* A variant of RStrip that strips nothing.
RStrip_Nothing(text, char) == text

\* text.rstrip(char)
RECURSIVE RStrip(_, _)
RStrip(text, char) ==
    IF text # <<>> /\ text[Len(text)] = char
    THEN RStrip(SubSeq(text, 1, Len(text) - 1), char)
    ELSE text

\* f"{int(int_part):,}".replace(',', ' ') on the digits of int_part
RECURSIVE GroupThousands(_)
GroupThousands(digits) ==
    IF Len(digits) <= 3 THEN digits
    ELSE GroupThousands(SubSeq(digits, 1, Len(digits) - 3)) \o <<" ">>
            \o SubSeq(digits, Len(digits) - 2, Len(digits))

\* Lines 400-417: the decimal rendering with the decimals of the value's
\* magnitude.
Plain(value, decimals) ==
    LET formatted == RStrip(RStrip(FixedPoint(value, decimals), "0"), ".")
        point     == IndexOf(formatted, {"."})
        int_part  == IF point = 0 THEN formatted ELSE SubSeq(formatted, 1, point - 1)
        dec_part  == IF point = 0 THEN <<>>
                     ELSE SubSeq(formatted, point + 1, Len(formatted))
        grouped   == IF Len(int_part) > 3
                     THEN (IF Head(int_part) = "-"
                           THEN <<"-">> \o GroupThousands(Tail(int_part))
                           ELSE GroupThousands(int_part))
                     ELSE int_part
    IN  IF dec_part # <<>> THEN grouped \o <<".">> \o dec_part ELSE grouped

\* abs(value) against 10^p for a nonzero value: -1, 0 or 1.  It is 1 for an
\* infinite value and 0 for nan, which Python finds neither less nor greater.
Magnitude(value, p) ==
    CASE value.k = "nan" -> 0
      [] value.k = "inf" -> 1
      [] OTHER -> CmpPow10(value, p)

format_result(value) ==
    IF IsZero(value) THEN <<"0">>
    ELSE IF Magnitude(value, -6) < 0 \/ Magnitude(value, 12) > 0
    THEN ReplaceExponentZero(Scientific(value, 8))
    ELSE Plain(value, IF Magnitude(value, -3) < 0 THEN 8
                      ELSE IF Magnitude(value, 0) < 0 THEN 6
                      ELSE IF Magnitude(value, 3) < 0 THEN 4
                      ELSE 2)

(***************************************************************************)
(* THE CONVERSATION.  One user in one chat.  A message text is a string;   *)
(* Chars spells it character by character for validate_input.              *)
(***************************************************************************)
Chars(t) == [i \in 1..Len(t) |-> SubSeq(t, i, i)]

\* str.startswith
StartsWith(t, prefix) == Len(t) >= Len(prefix) /\ SubSeq(t, 1, Len(prefix)) = prefix

\* The buttons and commands of the dialogue.  The star stands for the
\* emoji that opens the texts of the favorites.
Btn ==
    [convert |-> ">> Konvertirovat",
     main_menu |-> "<< Glavnoe menyu",
     back |-> "<< Nazad",
     new_conversion |-> "Novaya konvertatsiya",
     more_values |-> "Eshche znacheniya",
     save_favorite |-> "* Sohranit v izbrannoe",
     quick |-> "Bystrye konvertatsii"]

Commands == {"/start", "/cancel", "/convert", "/help"}

\* filters.COMMAND
IsCommand(t) == t \in Commands

\* BotState, and END (no conversation) as "Idle".
SELECT_CATEGORY == "SELECT_CATEGORY"

SELECT_UNIT_FROM == "SELECT_UNIT_FROM"

SELECT_UNIT_TO == "SELECT_UNIT_TO"

ENTER_VALUE == "ENTER_VALUE"

SAVE_FAVORITE == "SAVE_FAVORITE"

END == "Idle"

ConvStates == {SELECT_CATEGORY, SELECT_UNIT_FROM, SELECT_UNIT_TO, ENTER_VALUE, SAVE_FAVORITE}

\* BotConfig.SESSION_TIMEOUT, seconds
SESSION_TIMEOUT == 300

None == "None"

\* Python's truth value of a session entry that is None (or absent) or a text.
Truthy(v) == v # None

\* The bounds of the model: the rows the tables conversion_history and
\* user_favorites may hold.
MaxHistoryRows == 2

MaxFavoriteRows == 1

\* f"{unit_from} -> {unit_to}", the name of a favorite
FavoriteName(unit_from, unit_to) == unit_from \o " -> " \o unit_to

\* The texts a user sends in the dialogue.
DialogTexts ==
    {"Dlina", "Drevnerusskie mery dliny",
     "metr (m)", "dyuym (in)", "arshin",
     Btn.convert, Btn.main_menu, Btn.back, Btn.new_conversion, Btn.more_values,
     Btn.save_favorite, Btn.quick, "* " \o FavoriteName("metr (m)", "dyuym (in)"),
     "/start", "/cancel", "/convert", "/help",
     "10", "abc", "nan"}

VARIABLES
    state,               \* the ConversationHandler's state for the chat and user
    session,             \* user_sessions[user_id]
    idle,                \* datetime.now() - session['last_activity'], seconds
    reply,               \* the last reply_text: its text, keyboard and detail
    conversion_history,  \* the number of rows of the table conversion_history
    user_favorites,      \* the rows of the table user_favorites
    elsewhere,           \* the ConversationHandler's state for the user's other chat
    user_stats,          \* the user's rows of the table user_stats: none or one
    args,                \* the arguments of an engine call made on its own
    returned             \* what that call returned

vars == <<state, session, idle, reply, conversion_history, user_favorites, elsewhere,
         user_stats, args, returned>>

\* The variables of the dialogue, and those of an engine call on its own.
dialogue == <<state, session, idle, reply, conversion_history, user_favorites, elsewhere,
              user_stats>>

engine == <<args, returned>>

\* Keyboards (InteractiveKeyboardManager), by the buttons they offer.
Markup(kind, units) == [kind |-> kind, units |-> units]

UnitsMenu(units) == Markup("units_menu", units)

Keyboard ==
    [main_menu |-> Markup("main_menu", {}),
     categories_menu |-> Markup("categories_menu", {}),
     back_only |-> Markup("back_only", {}),
     after_conversion_menu |-> Markup("after_conversion_menu", {}),
     favorites_menu |-> Markup("favorites_menu", {}),
     quick_actions_menu |-> Markup("quick_actions_menu", {}),
     none |-> Markup("none", {})]

Reply(text, markup, detail) == [text |-> text, markup |-> markup, detail |-> detail]

\* The reply texts, by call site.
Txt ==
    [welcome |-> "Dobro pozhalovat",
     help |-> "Polnoe rukovodstvo polzovatelya",
     choose_category |-> "Vyberite kategoriyu izmereniya",
     main_menu |-> "Glavnoe menyu:",
     bad_category |-> "Pozhaluysta, vyberite kategoriyu iz predlozhennyh variantov.",
     choose_unit_from |-> "Vyberite ishodnuyu edinitsu izmereniya",
     back_to_category |-> "Vyberite kategoriyu:",
     bad_unit |-> "Pozhaluysta, vyberite edinitsu izmereniya iz predlozhennyh variantov.",
     choose_unit_to |-> "Vyberite tselevuyu edinitsu",
     session_stale |-> "Sessiya ustarela. Nachnite zanovo.",
     incompatible |-> "Vybrannye edinitsy nesovmestimy. Pozhaluysta, vyberite druguyu edinitsu.",
     enter_value |-> "Vvedite znachenie dlya konvertatsii",
     session_error |-> "Oshibka sessii. Pozhaluysta, nachnite zanovo.",
     conversion_error |-> "Oshibka pri konvertatsii",
     result_out_of_range |-> "Rezultat konvertatsii vyhodit za dopustimye predely",
     result |-> "Rezultat konvertatsii",
     next_value |-> "Vvedite sleduyushchee znachenie dlya konvertatsii",
     favorite_saved |-> "Konvertatsiya sohranena v izbrannoe",
     favorite_exists |-> "Konvertatsiya uzhe est v izbrannom",
     nothing_to_save |-> "Net dannyh dlya sohraneniya",
     favorite_chosen |-> "Vvedite znachenie dlya konvertatsii:",
     favorite_not_found |-> "Izbrannaya konvertatsiya ne naydena",
     quick |-> "Bystrye konvertatsii",
     quick_result |-> "Rezultat bystroy konvertatsii:",
     quick_error |-> "Oshibka pri konvertatsii:",
     use_buttons |-> "Pozhaluysta, ispolzuyte knopki dlya vybora deystviya",
     navigate |-> "Ispolzuyte knopki nizhe dlya navigatsii",
     unexpected_error |-> "Proizoshla nepredvidennaya oshibka"]

\* get_user_session: the session as created on first access.  An entry the
\* dictionary does not hold yet reads as None, as session.get gives it.
NewSession ==
    [current_category |-> None, unit_from |-> None, unit_to |-> None,
     last_conversion |-> NoValue, conversion_count |-> 0]

\* ConversionResult (its timestamp is not modelled).
ConversionResult(value, unit_from, unit_to, result, category) ==
    [value |-> value, unit_from |-> unit_from, unit_to |-> unit_to,
     result |-> result, category |-> category]

\* A variant of Favorite that stores the two units exchanged.
Favorite_UnitsExchanged(name, from_unit, to_unit, category) ==
    [favorite_name |-> name, from_unit |-> to_unit, to_unit |-> from_unit,
     category |-> category]

\* A row of user_favorites.
Favorite(name, from_unit, to_unit, category) ==
    [favorite_name |-> name, from_unit |-> from_unit, to_unit |-> to_unit,
     category |-> category]

\* is_favorite_name_unique
is_favorite_name_unique(name) == \A f \in user_favorites : f.favorite_name # name

\* A variant of save_conversion that does not read the count of the old row.
save_conversion_CountFromZero(stats) ==
    {[conversions_count |-> 1, favorites_count |-> 0, first_seen |-> 0]}

\* save_conversion, its statement on user_stats: INSERT OR REPLACE puts a new
\* row in the place of the user's row, with conversions_count one more than
\* the old row's (or than 0) and with the columns it does not name at their
\* defaults: favorites_count 0 and first_seen CURRENT_TIMESTAMP.  first_seen
\* is held as datetime.now() - first_seen, in seconds.
save_conversion(stats) ==
    LET count == IF stats = {} THEN 0 ELSE (CHOOSE row \in stats : TRUE).conversions_count
    IN  {[conversions_count |-> count + 1, favorites_count |-> 0, first_seen |-> 0]}

\* save_favorite, its statement on user_stats: UPDATE sets favorites_count of
\* the user's row, if there is one, to the number of the user's favorites.
save_favorite(stats, favorites) ==
    {[row EXCEPT !.favorites_count = Cardinality(favorites)] : row \in stats}

InitDialogue ==
    /\ state = END
    /\ session = NewSession
    /\ idle = 0
    /\ reply = Reply(None, Keyboard.none, None)
    /\ conversion_history = 0
    /\ user_favorites = {}
    /\ elsewhere = END
    /\ user_stats = {}

\* No engine call on its own is made in the dialogue.
NoCall == [call |-> "none"]

Init ==
    /\ InitDialogue
    /\ args = NoCall
    /\ returned = NoCall

\* The target units offered for a source unit.
AvailableUnits(category, unit_from) == DOMAIN get_compatible_units(category) \ {unit_from}

\* The engine call of handle_value_input, lines 1039-1042.
Convert(value, unit_from, unit_to, category) ==
    IF category = "Temperatura" THEN convert_temperature(value, unit_from, unit_to)
    ELSE convert_standard(value, unit_from, unit_to, category)

\* A variant of start that discards the session's selections and leaves
\* the ConversationHandler's state as it is.
start_DiscardsSelections(t) ==
    /\ t = "/start" \/ (t = "/cancel" /\ state # END)
    /\ idle' = 0
    /\ reply' = Reply(Txt.welcome, Keyboard.main_menu, None)
    /\ session' = [session EXCEPT !.current_category = None, !.unit_from = None,
                                  !.unit_to = None]
    /\ UNCHANGED <<state, conversion_history, user_favorites, engine, elsewhere, user_stats>>

\* start: /start outside and inside a conversation, and the fallback that
\* main() registers for /cancel.  It returns None, which leaves the
\* ConversationHandler's state as it is.
start(t) ==
    /\ t = "/start" \/ (t = "/cancel" /\ state # END)
    /\ idle' = 0
    /\ reply' = Reply(Txt.welcome, Keyboard.main_menu, None)
    /\ UNCHANGED <<state, session, conversion_history, user_favorites, engine, elsewhere, user_stats>>

\* help_command does not touch the session.
help_command(t) ==
    /\ t = "/help"
    /\ reply' = Reply(Txt.help, Keyboard.main_menu, None)
    /\ UNCHANGED <<state, session, idle, conversion_history, user_favorites, engine, elsewhere, user_stats>>

\* show_categories as an entry point of the conversation.
show_categories(t) ==
    /\ state = END
    /\ t \in {"/convert", Btn.convert}
    /\ idle' = 0
    /\ reply' = Reply(Txt.choose_category, Keyboard.categories_menu, None)
    /\ state' = SELECT_CATEGORY
    /\ UNCHANGED <<session, conversion_history, user_favorites, engine, elsewhere, user_stats>>

\* show_quick_conversions as the handler of its button outside a conversation.
show_quick_conversions(t) ==
    /\ state = END
    /\ t = Btn.quick
    /\ reply' = Reply(Txt.quick, Keyboard.quick_actions_menu, None)
    /\ UNCHANGED <<state, session, idle, conversion_history, user_favorites, engine, elsewhere, user_stats>>

\* The table quick_conversions of handle_quick_conversion; its keys are the
\* texts of the filter main() registers the handler with.
quick_conversions ==
    "Dyuymy -> sm" :> [value |-> Int2Num(10), from_unit |-> "dyuym (in)",
                       to_unit |-> "santimetr (sm)", category |-> "Dlina"]
    @@ "Funty -> kg" :> [value |-> Int2Num(1), from_unit |-> "funt (lb)",
                         to_unit |-> "kilogramm (kg)", category |-> "Massa"]
    @@ "F -> C" :> [value |-> Int2Num(32), from_unit |-> "Farengeyt (F)",
                    to_unit |-> "Tselsiy (C)", category |-> "Temperatura"]
    @@ "Mbit -> MB/s" :> [value |-> Int2Num(100), from_unit |-> "megabit/sek (Mbps)",
                          to_unit |-> "megabayt/sek (MBps)",
                          category |-> "Skorost peredachi dannyh"]
    @@ "Mili -> km" :> [value |-> Int2Num(1), from_unit |-> "milya (mi)",
                        to_unit |-> "kilometr (km)", category |-> "Dlina"]
    @@ "Futy -> metry" :> [value |-> Int2Num(6), from_unit |-> "fut (ft)",
                           to_unit |-> "metr (m)", category |-> "Dlina"]

\* handle_quick_conversion, which main() registers after the conversation:
\* it takes a text of the table when no conversation is going on.  db_ok:
\* whether self.db.save_conversion returns or raises.
handle_quick_conversion(t, db_ok) ==
    /\ state = END
    /\ t \in DOMAIN quick_conversions
    /\ idle' = 0
    /\ LET q == quick_conversions[t]
           result == IF q.category = "Temperatura"
                     THEN convert_temperature(q.value, q.from_unit, q.to_unit)
                     ELSE convert_standard(q.value, q.from_unit, q.to_unit, q.category)
       IN  IF ~result.ok
           THEN /\ reply' = Reply(Txt.quick_error, Keyboard.main_menu, result.exc)
                /\ UNCHANGED <<conversion_history, user_stats>>
           ELSE IF ~db_ok
           THEN /\ reply' = Reply(Txt.quick_error, Keyboard.main_menu, Exc.database)
                /\ UNCHANGED <<conversion_history, user_stats>>
           ELSE /\ conversion_history < MaxHistoryRows
                /\ conversion_history' = conversion_history + 1
                /\ user_stats' = save_conversion(user_stats)
                /\ reply' = Reply(Txt.quick_result, Keyboard.main_menu, None)
    /\ UNCHANGED <<state, session, user_favorites, engine, elsewhere>>

\* handle_favorite_selection, which handle_text_message calls for a text
\* that opens with the star.  db_ok: whether get_user_favorites returns or
\* raises, and error_handler answers.  The state it sets is an entry of
\* context.user_data, not the ConversationHandler's.
handle_favorite_selection(t, db_ok) ==
    LET favorite_name == SubSeq(t, 3, Len(t))
        found == {f \in user_favorites : f.favorite_name = favorite_name}
    IN  IF ~db_ok
        THEN /\ reply' = Reply(Txt.unexpected_error, Keyboard.main_menu, None)
             /\ UNCHANGED session
        ELSE IF found # {}
        THEN LET selected_favorite == CHOOSE f \in found : TRUE
             IN  /\ session' = [session EXCEPT
                                  !.current_category = selected_favorite.category,
                                  !.unit_from = selected_favorite.from_unit,
                                  !.unit_to = selected_favorite.to_unit]
                 /\ reply' = Reply(Txt.favorite_chosen, Keyboard.back_only, None)
        ELSE /\ reply' = Reply(Txt.favorite_not_found, Keyboard.favorites_menu, None)
             /\ UNCHANGED session

\* handle_text_message: a text outside a conversation that no earlier
\* handler takes and that is no key of navigation_handlers.
handle_text_message(t, db_ok) ==
    /\ state = END
    /\ ~IsCommand(t)
    /\ t \notin {Btn.convert, Btn.quick}
    /\ idle' = 0
    /\ IF StartsWith(t, "* ") THEN handle_favorite_selection(t, db_ok)
       ELSE /\ reply' = Reply(Txt.navigate, Keyboard.main_menu, None)
            /\ UNCHANGED session
    /\ UNCHANGED <<state, conversion_history, user_favorites, engine, elsewhere, user_stats>>

\* A variant of handle_category_selection that ends the conversation on a
\* text that is no category.
handle_category_selection_UnknownEnds(t) ==
    /\ state = SELECT_CATEGORY
    /\ ~IsCommand(t)
    /\ idle' = 0
    /\ UNCHANGED <<conversion_history, user_favorites, engine, elsewhere, user_stats>>
    /\ IF t = Btn.main_menu \/ t \notin Categories
       THEN /\ reply' = Reply(Txt.main_menu, Keyboard.main_menu, None)
            /\ state' = END
            /\ UNCHANGED session
       ELSE /\ session' = [session EXCEPT !.current_category = t]
            /\ reply' = Reply(Txt.choose_unit_from, UnitsMenu(DOMAIN PHYSICAL_QUANTITIES[t]), None)
            /\ state' = SELECT_UNIT_FROM

handle_category_selection(t) ==
    /\ state = SELECT_CATEGORY
    /\ ~IsCommand(t)
    /\ idle' = 0
    /\ UNCHANGED <<conversion_history, user_favorites, engine, elsewhere, user_stats>>
    /\ IF t = Btn.main_menu
       THEN /\ reply' = Reply(Txt.main_menu, Keyboard.main_menu, None)
            /\ state' = END
            /\ UNCHANGED session
       ELSE IF t \notin Categories
       THEN /\ reply' = Reply(Txt.bad_category, Keyboard.categories_menu, None)
            /\ state' = SELECT_CATEGORY
            /\ UNCHANGED session
       ELSE /\ session' = [session EXCEPT !.current_category = t]
            /\ reply' = Reply(Txt.choose_unit_from, UnitsMenu(DOMAIN PHYSICAL_QUANTITIES[t]), None)
            /\ state' = SELECT_UNIT_FROM

\* The units of the stored category's own registry (none when there is no
\* such category).
CategoryUnits(category) ==
    IF category \in Categories THEN DOMAIN PHYSICAL_QUANTITIES[category] ELSE {}

handle_unit_from_selection(t) ==
    /\ state = SELECT_UNIT_FROM
    /\ ~IsCommand(t)
    /\ idle' = 0
    /\ UNCHANGED <<conversion_history, user_favorites, engine, elsewhere, user_stats>>
    /\ LET category == session.current_category
       IN  IF t = Btn.back
           THEN /\ reply' = Reply(Txt.back_to_category, Keyboard.categories_menu, None)
                /\ state' = SELECT_CATEGORY
                /\ UNCHANGED session
           ELSE IF ~Truthy(category) \/ t \notin CategoryUnits(category)
           THEN /\ reply' = Reply(Txt.bad_unit, Keyboard.categories_menu, None)
                /\ state' = SELECT_CATEGORY
                /\ UNCHANGED session
           ELSE /\ session' = [session EXCEPT !.unit_from = t]
                /\ reply' = Reply(Txt.choose_unit_to, UnitsMenu(AvailableUnits(category, t)), None)
                /\ state' = SELECT_UNIT_TO

\* A variant of the check below that accepts every text as the target unit.
IsCompatibleUnit_AnyText(t, category) == TRUE

\* The check of lines 962-963 on the text sent as the target unit.
IsCompatibleUnit(t, category) == t \in DOMAIN get_compatible_units(category)

handle_unit_to_selection(t) ==
    /\ state = SELECT_UNIT_TO
    /\ ~IsCommand(t)
    /\ idle' = 0
    /\ UNCHANGED <<conversion_history, user_favorites, engine, elsewhere, user_stats>>
    /\ LET category  == session.current_category
           unit_from == session.unit_from
       IN  IF t = Btn.back /\ Truthy(category)
           THEN /\ reply' = Reply(Txt.choose_unit_from, UnitsMenu(CategoryUnits(category)), None)
                /\ state' = SELECT_UNIT_FROM
                /\ UNCHANGED session
           ELSE IF ~(Truthy(category) /\ Truthy(unit_from))
           THEN /\ reply' = Reply(Txt.session_stale, Keyboard.main_menu, None)
                /\ state' = END
                /\ UNCHANGED session
           ELSE IF ~IsCompatibleUnit(t, category)
           THEN /\ reply' = Reply(Txt.incompatible,
                                  UnitsMenu(AvailableUnits(category, unit_from)), None)
                /\ state' = SELECT_UNIT_TO
                /\ UNCHANGED session
           ELSE /\ session' = [session EXCEPT !.unit_to = t]
                /\ reply' = Reply(Txt.enter_value, Keyboard.back_only, None)
                /\ state' = ENTER_VALUE

\* The outcome of the conversion handle_value_input attempts for a text the
\* validator accepted.
Conversion(value) ==
    Convert(value, session.unit_from, session.unit_to, session.current_category)

\* A variant of Converted that records the result in the session before it
\* saves it, so that a failing save_conversion leaves the record behind.
Converted_SessionFirst(value, result, db_ok) ==
    IF ~result.ok
    THEN /\ reply' = Reply(Txt.conversion_error, Keyboard.main_menu, result.exc)
         /\ state' = END
         /\ UNCHANGED <<session, conversion_history, user_stats>>
    ELSE IF IsInfOrNan(result.v)
    THEN /\ reply' = Reply(Txt.result_out_of_range, Keyboard.main_menu, None)
         /\ state' = END
         /\ UNCHANGED <<session, conversion_history, user_stats>>
    ELSE /\ session' =
              [session EXCEPT
                 !.conversion_count = @ + 1,
                 !.last_conversion =
                     ConversionResult(value, session.unit_from, session.unit_to,
                                      result.v, session.current_category)]
         /\ IF ~db_ok
            THEN /\ reply' = Reply(Txt.conversion_error, Keyboard.main_menu, Exc.database)
                 /\ state' = END
                 /\ UNCHANGED <<conversion_history, user_stats>>
            ELSE /\ conversion_history < MaxHistoryRows
                 /\ conversion_history' = conversion_history + 1
                 /\ user_stats' = save_conversion(user_stats)
                 /\ reply' = Reply(Txt.result, Keyboard.after_conversion_menu, None)
                 /\ state' = SAVE_FAVORITE

\* Lines 1036-1090 for the outcome of the engine call: the reply to a
\* failure, or the record of the result.  db_ok: whether
\* self.db.save_conversion returns (TRUE) or raises (FALSE).
Converted(value, result, db_ok) ==
    IF ~result.ok
    THEN /\ reply' = Reply(Txt.conversion_error, Keyboard.main_menu, result.exc)
         /\ state' = END
         /\ UNCHANGED <<session, conversion_history, user_stats>>
    ELSE IF IsInfOrNan(result.v)
    THEN /\ reply' = Reply(Txt.result_out_of_range, Keyboard.main_menu, None)
         /\ state' = END
         /\ UNCHANGED <<session, conversion_history, user_stats>>
    ELSE IF ~db_ok
    THEN /\ reply' = Reply(Txt.conversion_error, Keyboard.main_menu, Exc.database)
         /\ state' = END
         /\ UNCHANGED <<session, conversion_history, user_stats>>
    ELSE /\ conversion_history < MaxHistoryRows
         /\ conversion_history' = conversion_history + 1
         /\ user_stats' = save_conversion(user_stats)
         /\ session' =
              [session EXCEPT
                 !.conversion_count = @ + 1,
                 !.last_conversion =
                     ConversionResult(value, session.unit_from, session.unit_to,
                                      result.v, session.current_category)]
         /\ reply' = Reply(Txt.result, Keyboard.after_conversion_menu, None)
         /\ state' = SAVE_FAVORITE

\* A variant of Validated that ends the conversation on a text the
\* validator rejects.
Validated_RejectionEnds(checked, db_ok) ==
    IF ~checked.valid
    THEN /\ reply' = Reply(checked.error, Keyboard.main_menu, None)
         /\ state' = END
         /\ UNCHANGED <<session, conversion_history, user_stats>>
    ELSE IF ~(Truthy(session.current_category) /\ Truthy(session.unit_from)
              /\ Truthy(session.unit_to))
    THEN /\ reply' = Reply(Txt.session_error, Keyboard.main_menu, None)
         /\ state' = END
         /\ UNCHANGED <<session, conversion_history, user_stats>>
    ELSE Converted(checked.value, Conversion(checked.value), db_ok)

\* The texts of two whole conversions: inches to centimetres, and megabits
\* a second to megabytes a second.
ScenarioTexts ==
    {Btn.convert, "Dlina", "dyuym (in)", "santimetr (sm)", "10",
     "Skorost peredachi dannyh", "megabit/sek (Mbps)", "megabayt/sek (MBps)", "100"}

\* EnhancedUnitConverter.validate_input(value_text) of line 1019, for each
\* text the dialogue sends.
Validation == [t \in DialogTexts \cup ScenarioTexts |-> validate_input(Chars(t))]

\* Lines 1018-1090 for the validator's verdict on the text.
Validated(checked, db_ok) ==
    IF ~checked.valid
    THEN /\ reply' = Reply(checked.error, Keyboard.none, None)
         /\ state' = ENTER_VALUE
         /\ UNCHANGED <<session, conversion_history, user_stats>>
    ELSE IF ~(Truthy(session.current_category) /\ Truthy(session.unit_from)
              /\ Truthy(session.unit_to))
    THEN /\ reply' = Reply(Txt.session_error, Keyboard.main_menu, None)
         /\ state' = END
         /\ UNCHANGED <<session, conversion_history, user_stats>>
    ELSE Converted(checked.value, Conversion(checked.value), db_ok)

handle_value_input(t, db_ok) ==
    /\ state = ENTER_VALUE
    /\ ~IsCommand(t)
    /\ idle' = 0
    /\ UNCHANGED <<user_favorites, engine, elsewhere>>
    /\ IF t = Btn.back /\ Truthy(session.current_category) /\ Truthy(session.unit_from)
       THEN /\ reply' = Reply(Txt.choose_unit_to,
                              UnitsMenu(AvailableUnits(session.current_category,
                                                       session.unit_from)), None)
            /\ state' = SELECT_UNIT_TO
            /\ UNCHANGED <<session, conversion_history, user_stats>>
       ELSE Validated(Validation[t], db_ok)

\* The branch of handle_after_conversion that saves the last conversion as
\* a favorite.  db_ok: whether the sqlite3 calls return or raise; when they
\* raise the handler does, error_handler answers, and the conversation
\* keeps its state.
SaveFavorite(conversion, db_ok) ==
    LET favorite_name == FavoriteName(conversion.unit_from, conversion.unit_to)
    IN  IF ~db_ok
        THEN /\ reply' = Reply(Txt.unexpected_error, Keyboard.main_menu, None)
             /\ UNCHANGED <<state, user_favorites, user_stats>>
        ELSE IF ~is_favorite_name_unique(favorite_name)
        THEN /\ reply' = Reply(Txt.favorite_exists, Keyboard.main_menu, None)
             /\ state' = END
             /\ UNCHANGED <<user_favorites, user_stats>>
        ELSE /\ Cardinality(user_favorites) < MaxFavoriteRows
             /\ user_favorites' = user_favorites \cup
                    {Favorite(favorite_name, conversion.unit_from, conversion.unit_to,
                              conversion.category)}
             /\ user_stats' = save_favorite(user_stats, user_favorites')
             /\ reply' = Reply(Txt.favorite_saved, Keyboard.main_menu, None)
             /\ state' = END

\* A variant of handle_after_conversion that answers 'another value' as it
\* answers 'new conversion'.
handle_after_conversion_AnotherValueRestarts(t, db_ok) ==
    /\ state = SAVE_FAVORITE
    /\ ~IsCommand(t)
    /\ idle' = 0
    /\ UNCHANGED <<session, conversion_history, engine, elsewhere>>
    /\ IF t = Btn.main_menu
       THEN /\ reply' = Reply(Txt.main_menu, Keyboard.main_menu, None)
            /\ state' = END
            /\ UNCHANGED <<user_favorites, user_stats>>
       ELSE IF t = Btn.new_conversion
       THEN /\ reply' = Reply(Txt.choose_category, Keyboard.categories_menu, None)
            /\ state' = SELECT_CATEGORY
            /\ UNCHANGED <<user_favorites, user_stats>>
       ELSE IF t = Btn.more_values
       THEN /\ reply' = Reply(Txt.choose_category, Keyboard.categories_menu, None)
            /\ state' = SELECT_CATEGORY
            /\ UNCHANGED <<user_favorites, user_stats>>
       ELSE IF t = Btn.save_favorite
       THEN IF session.last_conversion # NoValue
            THEN SaveFavorite(session.last_conversion, db_ok)
            ELSE /\ reply' = Reply(Txt.nothing_to_save, Keyboard.main_menu, None)
                 /\ state' = END
                 /\ UNCHANGED <<user_favorites, user_stats>>
       ELSE IF t = Btn.quick
       THEN /\ reply' = Reply(Txt.quick, Keyboard.quick_actions_menu, None)
            /\ state' = END
            /\ UNCHANGED <<user_favorites, user_stats>>
       ELSE /\ reply' = Reply(Txt.use_buttons, Keyboard.main_menu, None)
            /\ state' = END
            /\ UNCHANGED <<user_favorites, user_stats>>

handle_after_conversion(t, db_ok) ==
    /\ state = SAVE_FAVORITE
    /\ ~IsCommand(t)
    /\ idle' = 0
    /\ UNCHANGED <<session, conversion_history, engine, elsewhere>>
    /\ IF t = Btn.main_menu
       THEN /\ reply' = Reply(Txt.main_menu, Keyboard.main_menu, None)
            /\ state' = END
            /\ UNCHANGED <<user_favorites, user_stats>>
       ELSE IF t = Btn.new_conversion
       THEN /\ reply' = Reply(Txt.choose_category, Keyboard.categories_menu, None)
            /\ state' = SELECT_CATEGORY
            /\ UNCHANGED <<user_favorites, user_stats>>
       ELSE IF t = Btn.more_values
       THEN /\ IF Truthy(session.unit_from) /\ Truthy(session.unit_to)
               THEN /\ reply' = Reply(Txt.next_value, Keyboard.back_only, None)
                    /\ state' = ENTER_VALUE
               ELSE UNCHANGED <<reply, state>>
            /\ UNCHANGED <<user_favorites, user_stats>>
       ELSE IF t = Btn.save_favorite
       THEN IF session.last_conversion # NoValue
            THEN SaveFavorite(session.last_conversion, db_ok)
            ELSE /\ reply' = Reply(Txt.nothing_to_save, Keyboard.main_menu, None)
                 /\ state' = END
                 /\ UNCHANGED <<user_favorites, user_stats>>
       ELSE IF t = Btn.quick
       THEN /\ reply' = Reply(Txt.quick, Keyboard.quick_actions_menu, None)
            /\ state' = END
            /\ UNCHANGED <<user_favorites, user_stats>>
       ELSE /\ reply' = Reply(Txt.use_buttons, Keyboard.main_menu, None)
            /\ state' = END
            /\ UNCHANGED <<user_favorites, user_stats>>

\* Time passes without a message from the user: past the session timeout.
\* The time since first_seen of the user's row of user_stats passes with it.
Tick ==
    /\ idle <= SESSION_TIMEOUT
    /\ idle' = SESSION_TIMEOUT + 1
    /\ user_stats' = {[row EXCEPT !.first_seen = SESSION_TIMEOUT + 1] : row \in user_stats}
    /\ UNCHANGED <<state, session, reply, conversion_history, user_favorites, engine, elsewhere>>

\* One update from the user, taken by the first handler main() registered
\* that accepts it.
Next ==
    \/ \E t \in DialogTexts : start(t)
    \/ \E t \in DialogTexts : help_command(t)
    \/ \E t \in DialogTexts : show_categories(t)
    \/ \E t \in DialogTexts : show_quick_conversions(t)
    \/ \E t \in DOMAIN quick_conversions, db_ok \in BOOLEAN : handle_quick_conversion(t, db_ok)
    \/ \E t \in DialogTexts, db_ok \in BOOLEAN : handle_text_message(t, db_ok)
    \/ \E t \in DialogTexts : handle_category_selection(t)
    \/ \E t \in DialogTexts : handle_unit_from_selection(t)
    \/ \E t \in DialogTexts : handle_unit_to_selection(t)
    \/ \E t \in DialogTexts, db_ok \in BOOLEAN : handle_value_input(t, db_ok)
    \/ \E t \in DialogTexts, db_ok \in BOOLEAN : handle_after_conversion(t, db_ok)
    \/ Tick

Spec == Init /\ [][Next]_vars

\* The dialogue on the texts of the two whole conversions.
NextScenario ==
    \/ \E t \in ScenarioTexts : show_categories(t)
    \/ \E t \in ScenarioTexts : handle_category_selection(t)
    \/ \E t \in ScenarioTexts : handle_unit_from_selection(t)
    \/ \E t \in ScenarioTexts : handle_unit_to_selection(t)
    \/ \E t \in ScenarioTexts, db_ok \in BOOLEAN : handle_value_input(t, db_ok)
    \/ \E t \in ScenarioTexts, db_ok \in BOOLEAN : handle_after_conversion(t, db_ok)

SpecScenario == Init /\ [][NextScenario]_vars

(***************************************************************************)
(* THE SAME USER IN TWO CHATS.  The ConversationHandler of main() is made  *)
(* with its default keys, so it keeps one conversation for each chat and   *)
(* user, while get_user_session keeps one session for each user.  `state'  *)
(* is the conversation of the chat the next message arrives in and         *)
(* `elsewhere' that of the user's other chat.                              *)
(***************************************************************************)
\* The user's next message is sent in the other chat.
SwitchChat ==
    /\ state' = elsewhere
    /\ elsewhere' = state
    /\ UNCHANGED <<session, idle, reply, conversion_history, user_favorites, user_stats,
                   engine>>

NextTwoChats ==
    \/ NextScenario
    \/ SwitchChat

SpecTwoChats == Init /\ [][NextTwoChats]_vars

(***************************************************************************)
(* convert_temperature ON ITS OWN: a call with arguments drawn from the    *)
(* five registered scales and a few values, and then the call back with    *)
(* the result and the two scales exchanged.                                *)
(***************************************************************************)
TemperatureValues ==
    {N(-500, 1), N(-300, 1), N(-27315, 100), N(-1, 1), Zero, N(100, 1), N(27315, 100)}

InitTemperature ==
    /\ InitDialogue
    /\ args \in {[call |-> "convert_temperature", value |-> v, from_unit |-> f, to_unit |-> u] :
                    v \in TemperatureValues, f \in TemperatureUnits, u \in TemperatureUnits}
    /\ returned = NoCall

CallConvertTemperature ==
    /\ returned = NoCall
    /\ returned' = [call |-> "convert_temperature",
                    forward |-> convert_temperature(args.value, args.from_unit, args.to_unit),
                    backward |-> NoCall]
    /\ UNCHANGED <<args, dialogue>>

CallConvertTemperatureBack ==
    /\ returned # NoCall
    /\ returned.backward = NoCall
    /\ returned.forward.ok
    /\ returned' = [returned EXCEPT
                      !.backward = convert_temperature(returned.forward.v, args.to_unit,
                                                       args.from_unit)]
    /\ UNCHANGED <<args, dialogue>>

NextTemperature ==
    \/ CallConvertTemperature
    \/ CallConvertTemperatureBack

SpecTemperature == InitTemperature /\ [][NextTemperature]_vars

(***************************************************************************)
(* convert_standard ON ITS OWN: a call with a category that is not the     *)
(* temperature, two of its units and one of a few values, and then the     *)
(* call back with the result and the two units exchanged.  The units are   *)
(* those whose factor has a significand of at most MaxSignificand: with    *)
(* longer ones the products of the exact arithmetic leave the integers of  *)
(* the model.                                                              *)
(***************************************************************************)
MaxSignificand == 999

StandardValues ==
    {Zero, N(1, 1), N(-1, 1), N(5, 2), N(1, 3), Norm(1, 1, 100), Norm(1, 1, -100)}

StandardUnits(category) ==
    {u \in DOMAIN PHYSICAL_QUANTITIES[category] :
        /\ PHYSICAL_QUANTITIES[category][u].type # "temperature"
        /\ PHYSICAL_QUANTITIES[category][u].factor # Unmodelled
        /\ PHYSICAL_QUANTITIES[category][u].factor.n <= MaxSignificand}

InitStandard ==
    /\ InitDialogue
    /\ args \in UNION {{[call |-> "convert_standard", value |-> v, from_unit |-> f,
                          to_unit |-> u, category |-> c] :
                             v \in StandardValues, f \in StandardUnits(c),
                             u \in StandardUnits(c)} : c \in Categories}
    /\ returned = NoCall

CallConvertStandard ==
    /\ returned = NoCall
    /\ returned' = [call |-> "convert_standard",
                    forward |-> convert_standard(args.value, args.from_unit, args.to_unit,
                                                 args.category),
                    backward |-> NoCall]
    /\ UNCHANGED <<args, dialogue>>

CallConvertStandardBack ==
    /\ returned # NoCall
    /\ returned.backward = NoCall
    /\ returned.forward.ok
    /\ returned' = [returned EXCEPT
                      !.backward = convert_standard(returned.forward.v, args.to_unit,
                                                    args.from_unit, args.category)]
    /\ UNCHANGED <<args, dialogue>>

NextStandard ==
    \/ CallConvertStandard
    \/ CallConvertStandardBack

SpecStandard == InitStandard /\ [][NextStandard]_vars

(***************************************************************************)
(* format_result ON ITS OWN: a call on each of some values, of either      *)
(* sign, in and around the magnitudes at which the rendering changes.      *)
(***************************************************************************)
FormatValues ==
    {Zero} \cup
    {Norm(sign * n, d, e) : sign \in {-1, 1}, n \in {1, 5, 15, 254, 12345, 99999996},
                            d \in {1, 3}, e \in {-8, -7, -6, -4, -3, -1, 0, 2, 3, 9, 10, 11, 12, 13}}

InitFormat ==
    /\ InitDialogue
    /\ args \in {[call |-> "format_result", value |-> v] : v \in FormatValues}
    /\ returned = NoCall

CallFormatResult ==
    /\ returned = NoCall
    /\ returned' = [call |-> "format_result", result |-> format_result(args.value)]
    /\ UNCHANGED <<args, dialogue>>

NextFormat == CallFormatResult

SpecFormat == InitFormat /\ [][NextFormat]_vars

(***************************************************************************)
(* validate_input ON ITS OWN: a call on every text of at most MaxLen       *)
(* characters of a small alphabet, and on some longer texts.               *)
(***************************************************************************)
MaxLen == 4

ValidateAlphabet == {"1", "0", "E", "-", "/"}

\* The formulas the help of the bot gives as supported input (help_command),
\* and the examples of the welcome text (start).
AdvertisedExamples ==
    {Chars(t) : t \in {"sin(30)", "2^8", "sqrt(16)", "log(100)", "pi/2",
                       "10", "15.5", "1/2"}}

ValidateTexts ==
    UNION {[1..k -> ValidateAlphabet] : k \in 0..MaxLen}
    \cup AdvertisedExamples
    \cup {Chars(t) : t \in {"1E100", "1E101", "-1E101", "1E-101", "1E101/1", "1/1E101",
                            "nan", "inf", "-inf", "inf/1", "pi", "1 000", "1,5", "2^8",
                            "abc", "1e-100", "-1e100", "1/2", "3/4", "-1/2", "1/-0",
                            "1.5/3", "/", "1/", "/2", "a/b", "1/2/3", "1+1/2",
                            "inf/inf", "1/nan", "", "-", "e", "1e"}}

InitValidate ==
    /\ InitDialogue
    /\ args \in {[call |-> "validate_input", text |-> t] : t \in ValidateTexts}
    /\ returned = NoCall

CallValidateInput ==
    /\ returned = NoCall
    /\ returned' = [call |-> "validate_input", result |-> validate_input(args.text)]
    /\ UNCHANGED <<args, dialogue>>

NextValidate == CallValidateInput

SpecValidate == InitValidate /\ [][NextValidate]_vars

(***************************************************************************)
(* THE CLAIMS.                                                             *)
(***************************************************************************)
\* a < b for two finite numbers
Less(a, b) == Sign(RSub(a, b)) < 0

\* The five steps of a conversation, as one step on the text t.
ConversationStep(t, db_ok) ==
    \/ handle_category_selection(t)
    \/ handle_unit_from_selection(t)
    \/ handle_unit_to_selection(t)
    \/ handle_value_input(t, db_ok)
    \/ handle_after_conversion(t, db_ok)

\* C1: every target unit SelectUnitTo accepts can be converted: the engine
\* never answers a value entered in EnterValue with the unknown-units error.
C1_AcceptedTargetConverts ==
    ~(reply.text = Txt.conversion_error /\ reply.detail = Exc.unknown_units)

\* C1, the failing dialogue: category Dlina, from metr (m) to arshin, which
\* SelectUnitTo accepted, ends with the unknown-units error.
C1_UnknownUnitsReached ==
    /\ state = END
    /\ reply.detail = Exc.unknown_units
    /\ session.current_category = "Dlina"
    /\ session.unit_from = "metr (m)"
    /\ session.unit_to = "arshin"

\* C2: /cancel sent in any conversation state puts the conversation in Idle
\* and discards the session's category, source unit and target unit, and
\* leaves the history and the favorites as they are.
C2_CancelResets ==
    [][start("/cancel") =>
          /\ state' = END
          /\ session'.current_category = None
          /\ session'.unit_from = None
          /\ session'.unit_to = None
          /\ UNCHANGED <<conversion_history, user_favorites>>]_vars

\* C2, the failing state: the welcome of /cancel has been sent and the
\* conversation still waits for a value, with its selections kept.
C2_CancelledYetInConversation ==
    /\ reply.text = Txt.welcome
    /\ state = ENTER_VALUE
    /\ Truthy(session.unit_to)

\* What each conversation state takes as a valid choice or a back/menu token.
Recognized(t) ==
    CASE state = SELECT_CATEGORY -> t \in Categories \cup {Btn.main_menu}
      [] state = SELECT_UNIT_FROM ->
            t \in CategoryUnits(session.current_category) \cup {Btn.back}
      [] state = SELECT_UNIT_TO ->
            t \in DOMAIN get_compatible_units(session.current_category) \cup {Btn.back}
      [] state = ENTER_VALUE -> t = Btn.back \/ validate_input(Chars(t)).valid
      [] state = SAVE_FAVORITE ->
            t \in {Btn.main_menu, Btn.new_conversion, Btn.more_values, Btn.save_favorite, Btn.quick}
      [] OTHER -> TRUE

\* C3: in every conversation state a text that is neither a valid choice
\* nor a back/menu token leaves the conversation state as it was.
C3_UnrecognizedKeepsState ==
    [][\A t \in DialogTexts, db_ok \in BOOLEAN :
          (ConversationStep(t, db_ok) /\ ~Recognized(t)) => state' = state]_vars

\* C3, the failing state: the reply to a text that is no unit, sent in
\* SelectUnitFrom, with the conversation back in SelectCategory.
C3_BadUnitLeavesStep == state = SELECT_CATEGORY /\ reply.text = Txt.bad_unit

\* The value of absolute zero on each scale.
AbsoluteZero(unit) ==
    CASE unit = "Tselsiy (C)" -> N(-27315, 100)
      [] unit = "Farengeyt (F)" -> N(-45967, 100)
      [] unit = "Kelvin (K)" -> Zero
      [] unit = "Rankin (R)" -> Zero
      [] unit = "Reomyur (Re)" -> N(-21852, 100)

\* C4: a temperature conversion of a value below absolute zero on its
\* scale fails, for every source scale and every target scale.
C4_BelowAbsoluteZeroFails ==
    (returned.call = "convert_temperature"
     /\ Less(args.value, AbsoluteZero(args.from_unit)))
        => ~returned.forward.ok

\* C4, the failing call: convert_temperature(-1, Kelvin, Celsius) returns
\* -274.15.
C4_MinusOneKelvinReturned ==
    /\ returned.call = "convert_temperature"
    /\ args.value = N(-1, 1)
    /\ args.from_unit = "Kelvin (K)"
    /\ args.to_unit = "Tselsiy (C)"
    /\ returned.forward = Returns(N(-27415, 100))

\* C5: for every ordered pair of the five scales and every value, the
\* conversion and the conversion back both succeed and give the value again.
C5_RoundTrip ==
    returned.call = "convert_temperature" =>
        /\ returned.forward.ok
        /\ returned.backward # NoCall =>
              (returned.backward.ok /\ returned.backward.v = args.value)

\* C5, the failing call: Celsius to Rankine returns, and the call back from
\* Rankine to Celsius raises.
C5_BackFromRankineRaises ==
    /\ returned.call = "convert_temperature"
    /\ args.from_unit = "Tselsiy (C)"
    /\ args.to_unit = "Rankin (R)"
    /\ returned.forward.ok
    /\ returned.backward = Raises(Exc.unknown_temperature_unit)

\* Finite, and zero or of a magnitude between 1e-100 and 1e100.
InRange(value) ==
    /\ IsFin(value)
    /\ ~AbsGt1e100(value)
    /\ ~AbsLt1em100NonZero(value)

\* C6: every value validate_input returns as valid is finite and is 0 or
\* of a magnitude between 1e-100 and 1e100.
C6_ValidIsInRange ==
    (returned.call = "validate_input" /\ returned.result.valid)
        => InRange(returned.result.value)

\* C6, the failing call: the text -1E101 is returned as the valid value
\* -1e101.
C6_NegativeHugeAccepted ==
    /\ returned.call = "validate_input"
    /\ args.text = Chars("-1E101")
    /\ returned.result = Valid(Norm(-1, 1, 101))

\* C7: whenever the conversation is in EnterValue, the source unit is a
\* unit of the stored category and the target unit is one of the units of
\* the category's compatible categories.
C7_UnitsOfEnterValue ==
    state = ENTER_VALUE =>
        /\ session.unit_from \in CategoryUnits(session.current_category)
        /\ session.unit_to \in DOMAIN get_compatible_units(session.current_category)

\* C7, its case: EnterValue entered again by 'another value' after a
\* conversion, and entered with a target unit of a compatible category.
C7_EnterValueReached ==
    /\ state = ENTER_VALUE
    /\ session.conversion_count > 0
    /\ session.unit_to \notin CategoryUnits(session.current_category)

\* C8: the source unit is rejected as the target, so source unit and target
\* unit of a session in EnterValue are always different.
C8_TargetDiffersFromSource == state = ENTER_VALUE => session.unit_from # session.unit_to

\* C8, the failing state: EnterValue with the source unit as the target.
C8_SameUnitAccepted ==
    /\ state = ENTER_VALUE
    /\ session.unit_from = "metr (m)"
    /\ session.unit_to = "metr (m)"

\* The engine returns a finite number for the value.
ConversionSucceeds(value) == Conversion(value).ok /\ ~IsInfOrNan(Conversion(value).v)

\* C9: in EnterValue a value the validator accepts and the engine converts
\* moves the conversation to PostResult and is recorded as the session's
\* last result, with the stored units and category and the computed result.
C9_SuccessIsRecorded ==
    [][\A t \in DialogTexts, db_ok \in BOOLEAN :
          (/\ handle_value_input(t, db_ok)
           /\ t # Btn.back
           /\ validate_input(Chars(t)).valid
           /\ ConversionSucceeds(validate_input(Chars(t)).value))
          => /\ state' = SAVE_FAVORITE
             /\ session'.last_conversion =
                   ConversionResult(validate_input(Chars(t)).value, session.unit_from,
                                    session.unit_to, Conversion(validate_input(Chars(t)).value).v,
                                    session.current_category)]_vars

\* C9, the failing state: a conversion from metr (m) to dyuym (in) ended
\* with the database's error, and the session records no result.
C9_ConvertedNotRecorded ==
    /\ state = END
    /\ reply.detail = Exc.database
    /\ session.unit_from = "metr (m)"
    /\ session.unit_to = "dyuym (in)"
    /\ session.last_conversion = NoValue

\* C10: the first message that reaches a conversation idle for longer than
\* SESSION_TIMEOUT finds it reset: it ends in Idle, or opens a new
\* conversation at SelectCategory, and is not taken as input to the old step.
C10_TimeoutResets ==
    [][(idle > SESSION_TIMEOUT /\ idle' = 0 /\ state \in ConvStates)
          => state' \in {END, SELECT_CATEGORY}]_vars

\* C11: when save_conversion fails during a successful conversion in
\* EnterValue, the user is still shown the result and the conversation
\* proceeds to PostResult: the failure does not make the request fail.
C11_PersistenceFailureKeepsResult ==
    [][\A t \in DialogTexts :
          (/\ handle_value_input(t, FALSE)
           /\ t # Btn.back
           /\ validate_input(Chars(t)).valid
           /\ ConversionSucceeds(validate_input(Chars(t)).value))
          => /\ state' = SAVE_FAVORITE
             /\ reply'.text # Txt.conversion_error]_vars

\* C11, the failing state: a conversion from dyuym (in) to metr (m) whose
\* history row could not be written is answered with the conversion error
\* and the conversation is over.
C11_ResultLostToDatabaseError ==
    /\ state = END
    /\ reply.text = Txt.conversion_error
    /\ reply.detail = Exc.database
    /\ session.unit_from = "dyuym (in)"
    /\ session.unit_to = "metr (m)"

\* C12: a failing persistence call leaves the session as it was: when
\* save_conversion raises in EnterValue, or save_favorite raises in
\* PostResult, category, source unit, target unit, conversion_count and last
\* result are the same after the step as before it.
C12_FailedPersistenceKeepsSession ==
    [][\A t \in DialogTexts :
          (\/ /\ Validation[t].valid
              /\ state = ENTER_VALUE
              /\ ConversionSucceeds(Validation[t].value)
              /\ handle_value_input(t, FALSE)
           \/ /\ t = Btn.save_favorite
              /\ session.last_conversion # NoValue
              /\ handle_after_conversion(t, FALSE))
          => /\ session'.current_category = session.current_category
             /\ session'.unit_from = session.unit_from
             /\ session'.unit_to = session.unit_to
             /\ session'.conversion_count = session.conversion_count
             /\ session'.last_conversion = session.last_conversion]_vars

\* C12, its cases: save_favorite raised in PostResult after a conversion,
\* and save_conversion raised in EnterValue after an earlier conversion.
C12_FavoriteNotSavedSessionKept ==
    \/ /\ state = SAVE_FAVORITE
       /\ reply.text = Txt.unexpected_error
       /\ session.conversion_count = 1
    \/ /\ state = END
       /\ reply.detail = Exc.database
       /\ session.conversion_count = 1

\* C13: 'back' in SelectUnitFrom returns the conversation to SelectCategory
\* and clears the session's source unit, a source unit left over from an
\* earlier selection included.
C13_BackClearsSourceUnit ==
    [][handle_unit_from_selection(Btn.back) =>
          /\ state' = SELECT_CATEGORY
          /\ session'.unit_from = None]_vars

\* C13, the failing state: the reply to 'back' sent in SelectUnitFrom, the
\* conversation in SelectCategory, and the source unit chosen earlier still
\* in the session.
C13_BackKeptSourceUnit ==
    /\ state = SELECT_CATEGORY
    /\ reply.text = Txt.back_to_category
    /\ session.unit_from = "metr (m)"

\* C14: 'back' moves one step back: in SelectUnitTo it leads to
\* SelectUnitFrom and in EnterValue to SelectUnitTo, however these states
\* were reached, and it is answered with the prompt of the earlier step, not
\* as a unit name or as a value.
C14_BackIsOneStepBack ==
    [][/\ handle_unit_to_selection(Btn.back) =>
             (state' = SELECT_UNIT_FROM /\ reply'.text = Txt.choose_unit_from)
       /\ \A db_ok \in BOOLEAN :
             handle_value_input(Btn.back, db_ok) =>
                 (state' = SELECT_UNIT_TO /\ reply'.text = Txt.choose_unit_to)]_vars

\* C14, its case: SelectUnitTo entered again with a target unit already
\* chosen and a conversion already made, as 'back' from an EnterValue that
\* 'another value' opened leaves it.
C14_BackFromAnotherValue ==
    /\ state = SELECT_UNIT_TO
    /\ reply.text = Txt.choose_unit_to
    /\ session.conversion_count > 0
    /\ session.last_conversion.unit_from = session.unit_from
    /\ session.last_conversion.unit_to = session.unit_to

\* C15: in EnterValue a text the validator rejects is answered with the
\* validator's reason, leaves the conversation in EnterValue, writes no
\* history row and leaves category, source unit, target unit,
\* conversion_count and last result as they were.
C15_RejectedValueKeepsAll ==
    [][\A t \in DialogTexts \ {Btn.back}, db_ok \in BOOLEAN :
          (/\ ~Validation[t].valid
           /\ handle_value_input(t, db_ok))
          => /\ reply'.text = Validation[t].error
             /\ reply'.text \in {Msg.division_by_zero, Msg.too_large, Msg.too_small,
                                 Msg.not_a_number}
             /\ state' = ENTER_VALUE
             /\ conversion_history' = conversion_history
             /\ session' = session]_vars

\* C15, its case: the reply to a text that is no number, the conversation
\* still in EnterValue after one conversion made earlier.
C15_RejectedAfterConversion ==
    /\ state = ENTER_VALUE
    /\ reply.text = Msg.not_a_number
    /\ session.conversion_count = 1
    /\ conversion_history = 1

\* C16: in PostResult 'another value' moves the conversation to EnterValue
\* with category, source unit and target unit unchanged, and these are the
\* units and the category of the conversion just made.
C16_AnotherValueKeepsUnits ==
    [][\A db_ok \in BOOLEAN :
          handle_after_conversion(Btn.more_values, db_ok) =>
              /\ state' = ENTER_VALUE
              /\ session'.current_category = session.current_category
              /\ session'.unit_from = session.unit_from
              /\ session'.unit_to = session.unit_to
              /\ session'.unit_from = session.last_conversion.unit_from
              /\ session'.unit_to = session.last_conversion.unit_to
              /\ session'.current_category = session.last_conversion.category]_vars

\* C16, its case: EnterValue opened by 'another value' after a conversion
\* from dyuym (in) to metr (m).
C16_AnotherValueAsked ==
    /\ state = ENTER_VALUE
    /\ reply.text = Txt.next_value
    /\ session.unit_from = "dyuym (in)"
    /\ session.unit_to = "metr (m)"
    /\ session.last_conversion # NoValue

\* C17: in PostResult, when the database calls return, 'save to favorites'
\* ends the conversation and stores a favorite whose source unit, target
\* unit and category are those of the conversion just made; when a favorite
\* of that name is stored already, the stored favorites stay as they are.
C17_FavoriteOfLastConversion ==
    [][handle_after_conversion(Btn.save_favorite, TRUE) =>
          /\ state' = END
          /\ session.last_conversion.unit_from = session.unit_from
          /\ session.last_conversion.unit_to = session.unit_to
          /\ session.last_conversion.category = session.current_category
          /\ IF \E f \in user_favorites :
                    f.favorite_name = FavoriteName(session.unit_from, session.unit_to)
             THEN user_favorites' = user_favorites
             ELSE user_favorites' = user_favorites \cup
                      {[favorite_name |-> FavoriteName(session.unit_from, session.unit_to),
                        from_unit |-> session.unit_from,
                        to_unit |-> session.unit_to,
                        category |-> session.current_category]}]_vars

\* C17, its case: the favorite metr (m) -> dyuym (in) of Dlina is stored,
\* and saving the same conversion again has been refused.
C17_SavedAndRefusedAgain ==
    /\ state = END
    /\ reply.text = Txt.favorite_exists
    /\ user_favorites = {[favorite_name |-> "metr (m) -> dyuym (in)",
                          from_unit |-> "metr (m)", to_unit |-> "dyuym (in)",
                          category |-> "Dlina"]}

\* C18: in SelectCategory a text that is no registered category and not the
\* main-menu token keeps the conversation in SelectCategory, is answered
\* with the re-prompt, and leaves the session's stored category as it was.
C18_UnknownCategoryReprompts ==
    [][\A t \in DialogTexts \ (Categories \cup {Btn.main_menu}) :
          handle_category_selection(t) =>
              /\ state' = SELECT_CATEGORY
              /\ reply' = Reply(Txt.bad_category, Keyboard.categories_menu, None)
              /\ session'.current_category = session.current_category]_vars

\* C18, its case: the re-prompt of SelectCategory, with the category of an
\* earlier selection still stored.
C18_RepromptedWithCategoryKept ==
    /\ state = SELECT_CATEGORY
    /\ reply.text = Txt.bad_category
    /\ session.current_category = "Dlina"

\* What the claim gives for a fraction of two numeric literals.
QuotientOrZeroReason(numerator, denominator) ==
    IF IsZero(denominator) THEN Invalid(Msg.division_by_zero)
    ELSE Valid(RDiv(numerator, denominator))

\* The result is the one the claim gives when both sides of the '/' are
\* numeric literals.
FractionIsQuotient(result, numerator, denominator) ==
    (~IsErr(numerator) /\ ~IsErr(denominator))
        => result = QuotientOrZeroReason(numerator, denominator)

\* C19: for a normalized text with exactly one '/' whose two sides are
\* numeric literals, validate_input fails with the division-by-zero reason
\* when the denominator is zero and otherwise succeeds with the quotient
\* ('1/2' gives 0.5); a text that is no number, as 'abc', fails with the
\* generic reason.
C19_FractionOrGenericReason ==
    returned.call = "validate_input" =>
        /\ Count(Clean(args.text), "/") = 1 =>
              FractionIsQuotient(
                  returned.result,
                  ParseFloat(SubSeq(Clean(args.text), 1,
                                    IndexOf(Clean(args.text), {"/"}) - 1)),
                  ParseFloat(SubSeq(Clean(args.text),
                                    IndexOf(Clean(args.text), {"/"}) + 1,
                                    Len(Clean(args.text)))))
        /\ args.text = Chars("1/2") => returned.result = Valid(Norm(5, 1, -1))
        /\ args.text = Chars("1/0") => returned.result = Invalid(Msg.division_by_zero)
        /\ args.text = Chars("abc") => returned.result = Invalid(Msg.not_a_number)
        /\ (/\ Lower(Clean(args.text)) \notin ConstantNames
            /\ \A i \in 1..Len(args.text) : args.text[i] \notin {"/", "+", "-", "*", "^"}
            /\ IsErr(ParseFloat(Clean(args.text))))
              => returned.result = Invalid(Msg.not_a_number)

\* C19, its case: the call on '3/4' has returned 0.75.
C19_ThreeQuartersReturned ==
    /\ returned.call = "validate_input"
    /\ args.text = Chars("3/4")
    /\ returned.result = Valid(Norm(75, 1, -2))

\* C20: validate_input is total: whichever path is taken or fails, the call
\* returns (valid, a number, no reason) or (invalid, no number, one of its
\* reasons), and no exception leaves it.
C20_ValidateInputIsTotal ==
    returned.call = "validate_input" =>
        \/ /\ returned.result.valid
           /\ returned.result.value.k \in {"fin", "inf", "nan"}
           /\ returned.result.error = NoError
        \/ /\ ~returned.result.valid
           /\ returned.result.value = NoValue
           /\ returned.result.error \in {Msg.division_by_zero, Msg.too_large,
                                         Msg.too_small, Msg.not_a_number}
           /\ returned.result.error # ""

\* C20, its case: the call on '1+1/2', where float('1+1') raises on the
\* fraction path, has returned the generic reason.
C20_FractionPathFailed ==
    /\ returned.call = "validate_input"
    /\ args.text = Chars("1+1/2")
    /\ returned.result = Invalid(Msg.not_a_number)

\* C21: every input format the help and the welcome text give as supported
\* is accepted by validate_input: a single call of an allowed function
\* (sin(30), sqrt(16), log(100)), a power (2^8) and a fraction with a named
\* constant as numerator (pi/2) are each returned as a valid number.
C21_AdvertisedExamplesAccepted ==
    (returned.call = "validate_input" /\ args.text \in AdvertisedExamples)
        => returned.result.valid

\* C21, the failing call: the advertised text sin(30) holds none of the
\* characters + - * ^, is never evaluated as an expression, and is rejected
\* as no number.
C21_SineRejected ==
    /\ returned.call = "validate_input"
    /\ args.text = Chars("sin(30)")
    /\ returned.result = Invalid(Msg.not_a_number)

\* C22: the whole dialogue (start of a conversion, category, source unit,
\* target unit, value text) ends in PostResult with the result
\* value * factor(source) / factor(target): in Dlina, 10 dyuym (in) are
\* 25.4 santimetr (sm); in Skorost peredachi dannyh, 100 megabit/sek (Mbps)
\* are 12.5 megabayt/sek (MBps).
C22_DialogueGivesQuotient ==
    [][\A t \in {"10", "100"} :
          handle_value_input(t, TRUE) =>
              /\ state' = SAVE_FAVORITE
              /\ session'.last_conversion.value = Validation[t].value
              /\ session'.last_conversion.result =
                    RDiv(RMul(Validation[t].value,
                              PHYSICAL_QUANTITIES[session.current_category]
                                                 [session.unit_from].factor),
                         PHYSICAL_QUANTITIES[session.current_category]
                                            [session.unit_to].factor)
              /\ (/\ t = "10"
                  /\ session.current_category = "Dlina"
                  /\ session.unit_from = "dyuym (in)"
                  /\ session.unit_to = "santimetr (sm)")
                    => session'.last_conversion.result = Norm(254, 1, -1)
              /\ (/\ t = "100"
                  /\ session.current_category = "Skorost peredachi dannyh"
                  /\ session.unit_from = "megabit/sek (Mbps)"
                  /\ session.unit_to = "megabayt/sek (MBps)")
                    => session'.last_conversion.result = Norm(125, 1, -1)]_vars

\* C22, its case: PostResult after the first conversion of the session,
\* 10 dyuym (in) to santimetr (sm), with the result 25.4.
C22_InchesConverted ==
    /\ state = SAVE_FAVORITE
    /\ session.conversion_count = 1
    /\ session.last_conversion =
          ConversionResult(Int2Num(10), "dyuym (in)", "santimetr (sm)",
                           Norm(254, 1, -1), "Dlina")

\* C23: for every category that is not the temperature and every two units
\* A and B registered in it, convert_standard of x from A to B and of the
\* result from B to A gives x again (the model's arithmetic is exact).
C23_StandardRoundTrip ==
    returned.call = "convert_standard" =>
        /\ returned.forward.ok
        /\ returned.backward # NoCall =>
              /\ returned.backward.ok
              /\ returned.backward.v = args.value

\* C23, its case: 1 dyuym (in) was converted to 2.54 santimetr (sm) and
\* back to 1.
C23_InchThereAndBack ==
    /\ returned.call = "convert_standard"
    /\ args.from_unit = "dyuym (in)"
    /\ args.to_unit = "santimetr (sm)"
    /\ args.value = N(1, 1)
    /\ returned.forward = Returns(N(254, 100))
    /\ returned.backward = Returns(N(1, 1))

\* The reference of C24, from the specification: a value of a scale in
\* Kelvin (Celsius: K = C + 273.15; Fahrenheit: K = (F - 32) * 5/9 + 273.15;
\* Kelvin: K; Rankine: K = R * 5/9; Reaumur: K = Re * 1.25 + 273.15).
ToKelvin(scale, x) ==
    CASE scale = "Tselsiy (C)" -> RAdd(x, N(27315, 100))
      [] scale = "Farengeyt (F)" ->
            RAdd(RDiv(RMul(RSub(x, N(32, 1)), N(5, 1)), N(9, 1)), N(27315, 100))
      [] scale = "Kelvin (K)" -> x
      [] scale = "Rankin (R)" -> RDiv(RMul(x, N(5, 1)), N(9, 1))
      [] scale = "Reomyur (Re)" -> RAdd(RMul(x, N(125, 100)), N(27315, 100))

\* The inverse formulas: a value in Kelvin on a scale.
FromKelvin(scale, k) ==
    CASE scale = "Tselsiy (C)" -> RSub(k, N(27315, 100))
      [] scale = "Farengeyt (F)" ->
            RAdd(RDiv(RMul(RSub(k, N(27315, 100)), N(9, 1)), N(5, 1)), N(32, 1))
      [] scale = "Kelvin (K)" -> k
      [] scale = "Rankin (R)" -> RDiv(RMul(k, N(9, 1)), N(5, 1))
      [] scale = "Reomyur (Re)" -> RDiv(RSub(k, N(27315, 100)), N(125, 100))

\* C24: for every two distinct temperature scales for which
\* convert_temperature returns a value, by a formula of the table or by way
\* of Celsius, the value is the one of the reference (source scale to
\* Kelvin, Kelvin to target scale); 0 C is 32 F, 100 C is 212 F and
\* -273.15 C is 0 K.
C24_TemperatureIsViaKelvin ==
    (/\ returned.call = "convert_temperature"
     /\ args.from_unit # args.to_unit
     /\ returned.forward.ok)
        => /\ returned.forward.v =
                 FromKelvin(args.to_unit, ToKelvin(args.from_unit, args.value))
           /\ (/\ args.from_unit = "Tselsiy (C)"
               /\ args.to_unit = "Farengeyt (F)"
               /\ args.value = Zero) => returned.forward.v = N(32, 1)
           /\ (/\ args.from_unit = "Tselsiy (C)"
               /\ args.to_unit = "Farengeyt (F)"
               /\ args.value = N(100, 1)) => returned.forward.v = N(212, 1)
           /\ (/\ args.from_unit = "Tselsiy (C)"
               /\ args.to_unit = "Kelvin (K)"
               /\ args.value = N(-27315, 100)) => returned.forward.v = Zero

\* C24, its case: 100 Rankine, converted by way of Celsius, are -359.67
\* Fahrenheit.
C24_RankineToFahrenheit ==
    /\ returned.call = "convert_temperature"
    /\ args.from_unit = "Rankin (R)"
    /\ args.to_unit = "Farengeyt (F)"
    /\ args.value = N(100, 1)
    /\ returned.forward = Returns(N(-35967, 100))

\* Whether a text of format_result is in scientific notation.
IsScientific(text) == \E i \in 1..Len(text) : text[i] = "e"

\* C25: format_result(0) is '0', and the text of a nonzero value that is
\* not rendered in scientific notation, of either sign, grouped by
\* thousands or not, does not end with '.' and has no '0' at the end of
\* its decimals.
C25_PlainHasNoTrailingZero ==
    returned.call = "format_result" =>
        /\ args.value = Zero => returned.result = <<"0">>
        /\ (args.value # Zero /\ ~IsScientific(returned.result)) =>
              /\ returned.result # <<>>
              /\ returned.result[Len(returned.result)] # "."
              /\ IndexOf(returned.result, {"."}) # 0 =>
                    returned.result[Len(returned.result)] # "0"

\* C25, its case: -1234.5, formatted with two decimals as -1234.50, was
\* rendered as '-1 234.5'.
C25_NegativeGrouped ==
    /\ returned.call = "format_result"
    /\ args.value = Norm(-12345, 1, -1)
    /\ returned.result = Chars("-1 234.5")

\* C26: format_result renders every nonzero value of a magnitude below 1e-6
\* or above 1e9 in scientific notation, the exponent with its sign and no
\* leading zero, and every value inside the band as a plain decimal; 1e10
\* and 5e11 are shown in scientific notation.
C26_ScientificOutsideBand ==
    (returned.call = "format_result" /\ args.value # Zero) =>
        /\ IsScientific(returned.result) <=>
              (CmpPow10(args.value, -6) < 0 \/ CmpPow10(args.value, 9) > 0)
        /\ IsScientific(returned.result) =>
              LET i == IndexOf(returned.result, {"e"})
              IN  /\ Len(returned.result) >= i + 2
                  /\ returned.result[i + 1] \in {"+", "-"}
                  /\ returned.result[i + 2] \in Digits \ {"0"}

\* C26, the failing call: 1e10 is rendered as the plain decimal
\* '10 000 000 000'.
C26_TenBillionPlain ==
    /\ returned.call = "format_result"
    /\ args.value = Norm(1, 1, 10)
    /\ returned.result = Chars("10 000 000 000")

\* C27: when a conversion fails in EnterValue (unknown units, unknown
\* category, unknown temperature scale or any other exception), the reply
\* is a curated message and holds no text of the exception.
C27_ReplyWithoutExceptionText ==
    reply.text = Txt.conversion_error => reply.detail = None

\* C27, the failing dialogue: a value entered for metr (m) to arshin of
\* Dlina is answered with the conversion error followed by the text of the
\* ValueError that convert_standard raised.
C27_ValueErrorTextSent ==
    /\ state = END
    /\ reply = Reply(Txt.conversion_error, Keyboard.main_menu, Exc.unknown_units)
    /\ session.unit_from = "metr (m)"
    /\ session.unit_to = "arshin"

\* C28: a conversion whose result is infinite or not a number is reported
\* as an error: no row is written to the history, the session keeps its
\* last conversion and its count of conversions, and the conversation does
\* not enter PostResult.
C28_NonFiniteResultIsAnError ==
    [][\A t \in DialogTexts, db_ok \in BOOLEAN :
          (/\ handle_value_input(t, db_ok)
           /\ Validation[t].valid
           /\ Conversion(Validation[t].value).ok
           /\ Conversion(Validation[t].value).v.k \in {"inf", "nan"})
              => /\ state' = END
                 /\ reply'.text = Txt.result_out_of_range
                 /\ conversion_history' = conversion_history
                 /\ session'.last_conversion = session.last_conversion
                 /\ session'.conversion_count = session.conversion_count]_vars

\* C28, its case: the value 'nan', which the validator accepts, was
\* converted to a result that is not a number, after an earlier conversion
\* had been recorded, and was answered with the error of a result out of
\* range.
C28_NotANumberReported ==
    /\ state = END
    /\ reply.text = Txt.result_out_of_range
    /\ session.conversion_count = 1
    /\ conversion_history = 1


\* C29: selections made in one conversation are never overwritten by a step
\* of a different conversation.  While the conversation of the user's other
\* chat has chosen its category (SelectUnitFrom and later), its source unit
\* (SelectUnitTo and later) and its target unit (EnterValue), a step taken
\* in this chat leaves the session's category, source unit and target unit
\* as they were, so that the value converted in EnterValue uses the ones
\* chosen in that same conversation.
C29_OtherConversationKeepsSelections ==
    [][elsewhere' = elsewhere =>
          /\ elsewhere \in {SELECT_UNIT_FROM, SELECT_UNIT_TO, ENTER_VALUE}
                => session'.current_category = session.current_category
          /\ elsewhere \in {SELECT_UNIT_TO, ENTER_VALUE}
                => session'.unit_from = session.unit_from
          /\ elsewhere = ENTER_VALUE
                => session'.unit_to = session.unit_to]_vars

\* Centimetres were chosen as the target unit in one chat, a data rate and
\* megabits per second as the category and source unit in the other, and the
\* value sent in the first chat was converted with all three: the reply is
\* the error of an unknown unit.
C29_ConvertedWithOtherChatsUnits ==
    /\ state = END
    /\ elsewhere = SELECT_UNIT_TO
    /\ session.current_category = "Skorost peredachi dannyh"
    /\ session.unit_from = "megabit/sek (Mbps)"
    /\ session.unit_to = "santimetr (sm)"
    /\ reply.text = Txt.conversion_error
    /\ reply.detail = Exc.unknown_units


\* The categories whose registry defines the unit name.
CategoriesOf(unit) == {c \in Categories : unit \in DOMAIN PHYSICAL_QUANTITIES[c]}

\* C30: every unit name of PHYSICAL_QUANTITIES belongs to exactly one
\* category, so each name of the merged unit set of a category and its
\* compatible categories is defined by exactly one of the merged registries,
\* and so is the unit the session holds as the target of a conversion.
C30_UnitNameInOneCategory ==
    /\ \A c \in Categories :
          \A unit \in DOMAIN PHYSICAL_QUANTITIES[c] : CategoriesOf(unit) = {c}
    /\ \A c \in Categories :
          LET cats == get_compatible_categories(c)
          IN  \A unit \in DOMAIN get_compatible_units(c) :
                 Cardinality({i \in 1..Len(cats) :
                                 /\ cats[i] \in Categories
                                 /\ unit \in DOMAIN PHYSICAL_QUANTITIES[cats[i]]}) = 1
    /\ state = ENTER_VALUE /\ session.current_category \in Categories
          /\ session.unit_to \in DOMAIN get_compatible_units(session.current_category)
          => Cardinality(CategoriesOf(session.unit_to)) = 1

\* A length was chosen, then the metre, and then the arshin, a unit of the
\* compatible category, from the merged set of the 21 units of the two.
C30_ArshinAmongTheLengths ==
    /\ state = ENTER_VALUE
    /\ session.current_category = "Dlina"
    /\ session.unit_from = "metr (m)"
    /\ session.unit_to = "arshin"
    /\ CategoriesOf("arshin") = {"Drevnerusskie mery dliny"}
    /\ Cardinality(DOMAIN get_compatible_units("Dlina")) = 21


\* The categories get_compatible_categories lists for the category.
CompatibleWith(category) ==
    LET cats == get_compatible_categories(category)
    IN  {cats[i] : i \in 1..Len(cats)}

\* C31: get_compatible_categories is reflexive and symmetric over the
\* registered categories, and a category the table does not name is
\* compatible with itself only; so the category the session holds is among
\* those offered for it, and each of them offers it back.
C31_CompatibilityReflexiveSymmetric ==
    /\ \A a \in Categories : a \in CompatibleWith(a)
    /\ \A a, b \in Categories : b \in CompatibleWith(a) <=> a \in CompatibleWith(b)
    /\ \A a \in Categories \ {"Dlina", "Drevnerusskie mery dliny"} :
          get_compatible_categories(a) = <<a>>
    /\ session.current_category \in Categories
          => /\ session.current_category \in CompatibleWith(session.current_category)
             /\ \A b \in CompatibleWith(session.current_category) :
                   session.current_category \in CompatibleWith(b)

\* An old Russian length was chosen as the category, the arshin as the source
\* and the metre, a unit of the compatible metric lengths, as the target.
C31_MetreAmongTheOldLengths ==
    /\ state = ENTER_VALUE
    /\ session.current_category = "Drevnerusskie mery dliny"
    /\ session.unit_from = "arshin"
    /\ session.unit_to = "metr (m)"
    /\ "Dlina" \in CompatibleWith("Drevnerusskie mery dliny")
    /\ "Drevnerusskie mery dliny" \in CompatibleWith("Dlina")


\* C32: after a user who is in Idle selects one of their stored favorites,
\* the session holds that favorite's category, source unit and target unit
\* and the conversation is in EnterValue, so that the next text is taken by
\* the value-input step.  The last reply is that of a chosen favorite exactly
\* after such a selection.
C32_FavoriteLeadsToEnterValue ==
    reply.text = Txt.favorite_chosen
        => /\ \E f \in user_favorites :
                 /\ session.current_category = f.category
                 /\ session.unit_from = f.from_unit
                 /\ session.unit_to = f.to_unit
           /\ state = ENTER_VALUE

\* The favorite of metres to inches was selected in Idle: the session holds
\* its units, and the conversation is still Idle.
C32_FavoriteChosenStillIdle ==
    /\ reply.text = Txt.favorite_chosen
    /\ reply.markup = Keyboard.back_only
    /\ session.unit_from = "metr (m)"
    /\ session.unit_to = "dyuym (in)"
    /\ state = END


\* C33: whenever the most recent reply carries the main-menu keyboard, the
\* conversation is Idle, so that the next press of a main-menu button is
\* handled by the navigation handler and not by a conversation step; also
\* when the main menu came from /start, /help or /cancel sent in the middle
\* of a conversation.
C33_MainMenuMeansIdle ==
    reply.markup = Keyboard.main_menu => state = END

\* /help was sent while the conversation waited for the source unit: the
\* help and the main menu were sent, and the conversation still waits.
C33_HelpShownInsideConversation ==
    /\ reply.text = Txt.help
    /\ reply.markup = Keyboard.main_menu
    /\ state = SELECT_UNIT_FROM
    /\ Truthy(session.current_category)


\* C34: convert_temperature supports all scales: for every ordered pair of
\* the five registered temperature units, Rankine to Celsius and Reaumur to
\* Celsius among them, the call returns a number and does not raise the
\* error of an unknown temperature unit.
C34_EveryPairOfScalesConverts ==
    returned.call = "convert_temperature"
        => /\ args.from_unit \in TemperatureUnits
           /\ args.to_unit \in TemperatureUnits
           /\ returned.forward.ok
           /\ returned.backward # NoCall => returned.backward.ok

\* 100 Rankine to Celsius: the call raised the error of an unknown
\* temperature unit.
C34_RankineToCelsiusRaises ==
    /\ returned.call = "convert_temperature"
    /\ args.from_unit = "Rankin (R)"
    /\ args.to_unit = "Tselsiy (C)"
    /\ args.value = N(100, 1)
    /\ returned.forward = Raises(Exc.unknown_temperature_unit)


\* C35: after any sequence of save_conversion and save_favorite calls,
\* user_stats.favorites_count equals the number of the user's rows in
\* user_favorites, and user_stats.first_seen keeps the value it had when the
\* user's row was first created.  A step that adds a row to the history is a
\* call of save_conversion, one that adds a favorite a call of save_favorite.
C35_StatsFollowTheTables ==
    [][(conversion_history' # conversion_history \/ user_favorites' # user_favorites)
          => \A row \in user_stats' :
                /\ row.favorites_count = Cardinality(user_favorites')
                /\ \A old \in user_stats : row.first_seen = old.first_seen]_vars

\* A conversion, a favorite saved and a second conversion: the user has one
\* favorite, and the row of user_stats, written anew, counts none.
C35_FavoriteCountedAsNone ==
    /\ Cardinality(user_favorites) = 1
    /\ user_stats = {[conversions_count |-> 2, favorites_count |-> 0, first_seen |-> 0]}
    /\ conversion_history = 2


\* user_stats.conversions_count of the user, 0 without a row.
ConversionsCount(stats) ==
    IF stats = {} THEN 0 ELSE (CHOOSE row \in stats : TRUE).conversions_count

\* The step is a conversion in EnterValue that succeeds: the validator
\* accepts the text, the engine returns a finite number and the result is
\* stored and shown.
ValueConverted ==
    /\ state = ENTER_VALUE
    /\ \E t \in DialogTexts \ {Btn.back} :
          /\ Validation[t].valid
          /\ ConversionSucceeds(Validation[t].value)
          /\ handle_value_input(t, TRUE)

\* The step is a quick conversion that succeeds.
QuickConverted ==
    /\ reply'.text = Txt.quick_result
    /\ \E t \in DOMAIN quick_conversions : handle_quick_conversion(t, TRUE)

\* C36: each successful conversion, of a valid value in EnterValue or a
\* quick one, appends exactly one row to the conversion history and adds
\* exactly 1 to user_stats.conversions_count, and each successful conversion
\* in EnterValue adds exactly 1 to the session's conversion_count; every
\* other step (a rejected input, a step back, a conversion that fails, in
\* the engine or in the database) changes none of the three.
C36_OneRowAndOneCountEach ==
    [][LET rows    == conversion_history' - conversion_history
           counted == ConversionsCount(user_stats') - ConversionsCount(user_stats)
           session_counted == session'.conversion_count - session.conversion_count
       IN  IF ValueConverted
           THEN rows = 1 /\ counted = 1 /\ session_counted = 1
           ELSE IF QuickConverted
           THEN rows = 1 /\ counted = 1 /\ session_counted = 0
           ELSE rows = 0 /\ counted = 0 /\ session_counted = 0]_vars

\* A conversion in EnterValue and then a quick one: two rows of history, two
\* conversions counted for the user and one in the session.
C36_ValueThenQuickConversion ==
    /\ reply.text = Txt.quick_result
    /\ conversion_history = 2
    /\ ConversionsCount(user_stats) = 2
    /\ session.conversion_count = 1


====
